---- MODULE Spec2Model ----
(***************************************************************************)
(* Model of check-restart's "reboot required" assertion engine:            *)
(*   internal/restart/restart.go            the asserter collection        *)
(*   internal/restart/registry (Key, KeyInt, KeyBinary, KeyString,         *)
(*                              KeyStrings, KeyPair)                       *)
(*   internal/restart/files/files_windows.go (File)                        *)
(*   internal/textutils/textutils.go        (NormalizePath, InList)        *)
(*   cmd/check_reboot                       (main, applyIgnorePatterns)    *)
(*                                                                         *)
(* Strings that are compared by the code (paths, ignore patterns) are      *)
(* sequences of one-character strings.  Every call into the operating      *)
(* system (registry open/read/close, os.Stat) yields one of its possible   *)
(* outcomes, chosen by the action that models the call.                    *)
(***************************************************************************)
EXTENDS Integers, Sequences, FiniteSets, TLC

VARIABLES
    rras,          \* the RebootRequiredAsserters collection
    phase,         \* position of the run: start, evaluating, panicking,
                   \* evaluated, failed (Validate error), panicked, and
                   \* in main filtered, reported
    idx,           \* index of the member whose Evaluate is running / next
    step,          \* position inside the running member's Evaluate
    member,        \* KeyPair: index of the enclosed Key being processed
    closeFailures, \* number of handle Close calls that returned an error
    plugin         \* main: the results stored in the nagios plugin, none
                   \* before main stores them

vars == <<rras, phase, idx, step, member, closeFailures, plugin>>

----------------------------------------------------------------------------
(* Bounds *)

MaxAsserters == 2

MaxSubKeys == 2

\* a handle's Close fails at most this many times in a run
MaxCloseFailures == 1

----------------------------------------------------------------------------
(* Strings *)

\* strings.ToLower, one character; the model's strings use these letters
ToLowerChar(c) ==
    CASE c = "A" -> "a" [] c = "B" -> "b" [] c = "C" -> "c" [] c = "F" -> "f"
      [] c = "G" -> "g" [] c = "H" -> "h" [] c = "P" -> "p" [] c = "R" -> "r"
      [] c = "S" -> "s" [] c = "U" -> "u" [] c = "X" -> "x" [] c = "Y" -> "y"
      [] OTHER -> c

\* filepath.ToSlash, one character (Windows: the separator is '\')
ToSlashChar(c) == IF c = "\\" THEN "/" ELSE c

\* filepath.FromSlash, one character (Windows)
FromSlashChar(c) == IF c = "/" THEN "\\" ELSE c

ToLower(s) == [i \in 1..Len(s) |-> ToLowerChar(s[i])]

ToSlash(s) == [i \in 1..Len(s) |-> ToSlashChar(s[i])]

\* variant: separators are left as they are
NormalizePathKeepSeparators(path) == ToLower(path)

NormalizePath(path) == ToSlash(ToLower(path))

\* strings.Contains
Contains(s, substr) ==
    \E i \in 0..(Len(s) - Len(substr)) :
        SubSeq(s, i + 1, i + Len(substr)) = substr

\* strings.EqualFold on the model's alphabet
EqualFold(s, t) == ToLower(s) = ToLower(t)

\* variant: an item that contains the needle counts as a match
InListSubstring(needle, haystack, ignoreCase) ==
    \E i \in 1..Len(haystack) :
        \/ ignoreCase /\ Contains(ToLower(haystack[i]), ToLower(needle))
        \/ Contains(haystack[i], needle)

InList(needle, haystack, ignoreCase) ==
    \E i \in 1..Len(haystack) :
        \/ ignoreCase /\ EqualFold(haystack[i], needle)
        \/ haystack[i] = needle

IsSeparator(c) == c = "\\" \/ c = "/"

\* filepath.Clean on paths without "." or ".." elements and without
\* repeated separators: separators are converted to '\'
Clean(path) == [i \in 1..Len(path) |-> FromSlashChar(path[i])]

\* filepath.Join of two non-empty elements
Join(dir, name) == Clean(dir \o <<"\\">> \o name)

\* filepath.Base of a cleaned path that does not end in a separator
Base(path) ==
    LET seps == {i \in 1..Len(path) : IsSeparator(path[i])}
        last == IF seps = {} THEN 0
                ELSE CHOOSE i \in seps : \A j \in seps : j <= i
    IN  SubSeq(path, last + 1, Len(path))

\* filepath.Dir of a cleaned path
Dir(path) ==
    LET seps == {i \in 1..Len(path) : IsSeparator(path[i])}
        last == IF seps = {} THEN 0
                ELSE CHOOSE i \in seps : \A j \in seps : j <= i
    IN  IF last = 0 THEN <<".">> ELSE SubSeq(path, 1, last - 1)

----------------------------------------------------------------------------
(* Errors.  A wrapped error is represented by the sentinel that errors.Is   *)
(* finds in it; OSError stands for any other error of an OS call.           *)

Nil == "nil"

ErrMissingValue == "ErrMissingValue"

ErrUnknownRebootEvidence == "ErrUnknownRebootEvidence"

ErrMissingRequiredItem == "ErrMissingRequiredItem"

ErrMissingOptionalItem == "ErrMissingOptionalItem"

ErrInvalidNumberOfKeysInKeyPair == "ErrInvalidNumberOfKeysInKeyPair"

ErrInvalidRootKey == "ErrInvalidRootKey"

ErrMissingRequiredKey == "ErrMissingRequiredKey"

ErrMissingOptionalKey == "ErrMissingOptionalKey"

ErrKeyAlreadyOpen == "ErrKeyAlreadyOpen"

ErrKeyNotOpen == "ErrKeyNotOpen"

OSError == "OSError"

----------------------------------------------------------------------------
(* Registry types *)

RegKeyRootNameLocalMachine == "HKEY_LOCAL_MACHINE"

RegKeyRootNameCurrentUser == "HKEY_CURRENT_USER"

RegKeyRootNameUnknown == "UNKNOWN"

\* registry root keys are named by the model after their Go constants;
\* every other value is an unrecognised root
getRootKeyName(key) ==
    CASE key = "LOCAL_MACHINE" -> RegKeyRootNameLocalMachine
      [] key = "CURRENT_USER" -> RegKeyRootNameCurrentUser
      [] OTHER -> RegKeyRootNameUnknown

KeyRebootEvidence(dataOtherThanX, subKeysExist, valueExists, keyExists) ==
    [DataOtherThanX |-> dataOtherThanX, SubKeysExist |-> subKeysExist,
     ValueExists |-> valueExists, KeyExists |-> keyExists]

KeyAssertions(keyRequired, valueRequired) ==
    [KeyRequired |-> keyRequired, ValueRequired |-> valueRequired]

KeyPairRebootEvidence(pairedValuesDoNotMatch) ==
    [PairedValuesDoNotMatch |-> pairedValuesDoNotMatch]

KeyStringsRebootEvidence(valueFound, allValuesFound) ==
    [ValueFound |-> valueFound, AllValuesFound |-> allValuesFound]

\* a MatchedPathIndex without entries (nil or empty map)
EmptyIndex == [p \in {} |-> 0]

MatchedPath(root, relative, base) ==
    [root |-> root, relative |-> relative, base |-> base, ignored |-> FALSE]

\* zero value of KeyRuntime; handle is TRUE while a handle is held
KeyRuntime ==
    [handle |-> FALSE, err |-> Nil,
     evidenceFound |-> KeyRebootEvidence(FALSE, FALSE, FALSE, FALSE),
     valueType |-> "", pathsMatched |-> EmptyIndex]

Key(root, path, value, evidenceExpected, requirements) ==
    [kind |-> "Key", root |-> root, runtime |-> KeyRuntime, path |-> path,
     value |-> value, evidenceExpected |-> evidenceExpected,
     requirements |-> requirements]

KeyInt(key, expectedData) ==
    [kind |-> "KeyInt", Key |-> key, runtime |-> [data |-> 0],
     expectedData |-> expectedData]

KeyBinary(key, expectedData) ==
    [kind |-> "KeyBinary", Key |-> key, runtime |-> [data |-> <<>>],
     expectedData |-> expectedData]

KeyString(key, expectedData) ==
    [kind |-> "KeyString", Key |-> key, runtime |-> [data |-> <<>>],
     expectedData |-> expectedData]

KeyStrings(key, expectedData, additionalEvidence) ==
    [kind |-> "KeyStrings", Key |-> key,
     runtime |-> [data |-> <<>>, searchTermMatched |-> <<>>,
                  evidenceFound |-> KeyStringsRebootEvidence(FALSE, FALSE)],
     expectedData |-> expectedData,
     additionalEvidence |-> additionalEvidence]

KeyPair(keys, additionalEvidence) ==
    [kind |-> "KeyPair", Keys |-> keys,
     runtime |-> [data |-> <<>>,
                  evidenceFound |-> KeyPairRebootEvidence(FALSE)],
     additionalEvidence |-> additionalEvidence]

\* zero value of FileRuntime; only FileExists is ever recorded
FileRuntime ==
    [err |-> Nil, evidenceFound |-> [FileExists |-> FALSE],
     pathsMatched |-> EmptyIndex]

File(path) == [kind |-> "File", path |-> path, runtime |-> FileRuntime]

TypedKinds == {"KeyInt", "KeyBinary", "KeyString", "KeyStrings"}

----------------------------------------------------------------------------
(* Key *)

IndexAdd(index, root, paths) ==
    LET new == {paths[i] : i \in 1..Len(paths)}
    IN  [p \in (DOMAIN index) \cup new |->
            IF p \in DOMAIN index THEN index[p]
            ELSE MatchedPath(root, p, Base(p))]

KeyAddMatchedPath(k, paths) ==
    [k EXCEPT !.runtime.pathsMatched =
        IndexAdd(@, getRootKeyName(k.root), paths)]

SetFoundEvidenceKeyExists(k) ==
    [k EXCEPT !.runtime.evidenceFound.KeyExists = TRUE]

SetFoundEvidenceValueExists(k) ==
    [k EXCEPT !.runtime.evidenceFound.ValueExists = TRUE]

SetFoundEvidenceSubKeysExist(k) ==
    [k EXCEPT !.runtime.evidenceFound.SubKeysExist = TRUE]

SetFoundEvidenceDataOtherThanX(k) ==
    [k EXCEPT !.runtime.evidenceFound.DataOtherThanX = TRUE]

KeyHasEvidence(k) ==
    IF k.runtime.evidenceFound.DataOtherThanX THEN TRUE
    ELSE IF k.runtime.evidenceFound.KeyExists THEN TRUE
    ELSE IF k.runtime.evidenceFound.SubKeysExist THEN TRUE
    ELSE IF k.runtime.evidenceFound.ValueExists THEN TRUE
    ELSE FALSE

KeyErr(k) == k.runtime.err

\* variant: one ignored path is enough
IndexIgnoredAny(index) ==
    IF Cardinality(DOMAIN index) = 0 THEN FALSE
    ELSE \E p \in DOMAIN index : index[p].ignored

IndexIgnored(index) ==
    IF Cardinality(DOMAIN index) = 0 THEN FALSE
    ELSE \A p \in DOMAIN index : index[p].ignored

\* variant: a key without matched paths counts as ignored
KeyIgnoredWhenEmpty(k) ==
    \A p \in DOMAIN k.runtime.pathsMatched : k.runtime.pathsMatched[p].ignored

KeyIgnored(k) == IndexIgnored(k.runtime.pathsMatched)

KeyHasIgnored(k) ==
    \E p \in DOMAIN k.runtime.pathsMatched : k.runtime.pathsMatched[p].ignored

KeyRebootRequired(k) ==
    IF ~KeyIgnored(k) /\ KeyHasEvidence(k) THEN TRUE ELSE FALSE

\* variant: ErrMissingOptionalItem is not excluded
KeyIsCriticalStateAnyError(k) ==
    IF ~KeyIgnored(k) /\ KeyRebootRequired(k) THEN FALSE
    ELSE IF ~KeyIgnored(k) /\ KeyErr(k) # Nil THEN TRUE
    ELSE FALSE

KeyIsCriticalState(k) ==
    IF ~KeyIgnored(k) /\ KeyRebootRequired(k) THEN FALSE
    ELSE IF ~KeyIgnored(k) /\ KeyErr(k) # Nil
         THEN (IF KeyErr(k) = ErrMissingOptionalItem THEN FALSE ELSE TRUE)
    ELSE FALSE

KeyIsWarningState(k) == ~KeyIgnored(k) /\ KeyRebootRequired(k)

KeyIsOKState(k) ==
    IF KeyIgnored(k) THEN TRUE
    ELSE IF ~KeyIgnored(k) /\ KeyRebootRequired(k) THEN FALSE
    ELSE IF ~KeyIgnored(k) /\ KeyErr(k) # Nil
         THEN (IF KeyErr(k) = ErrMissingOptionalItem THEN TRUE ELSE FALSE)
    ELSE TRUE

\* the loop of Key.Filter / File.Filter over the matched-path index
\* variant: a match flips the ignored flag
IndexFilterToggle(index, ignorePatterns) ==
    [p \in DOMAIN index |->
        IF \E i \in 1..Len(ignorePatterns) :
               Contains(NormalizePath(p), NormalizePath(ignorePatterns[i]))
        THEN [index[p] EXCEPT !.ignored = ~@]
        ELSE index[p]]

IndexFilter(index, ignorePatterns) ==
    [p \in DOMAIN index |->
        IF \E i \in 1..Len(ignorePatterns) :
               Contains(NormalizePath(p), NormalizePath(ignorePatterns[i]))
        THEN [index[p] EXCEPT !.ignored = TRUE]
        ELSE index[p]]

\* variant: evidence is cleared once every matched path is ignored
KeyFilterDropEvidence(k, ignorePatterns) ==
    IF Len(ignorePatterns) = 0 THEN k
    ELSE [k EXCEPT !.runtime.pathsMatched = IndexFilter(@, ignorePatterns),
                   !.runtime.evidenceFound =
                        IF IndexIgnored(IndexFilter(k.runtime.pathsMatched,
                                                    ignorePatterns))
                        THEN KeyRebootEvidence(FALSE, FALSE, FALSE, FALSE)
                        ELSE @]

KeyFilter(k, ignorePatterns) ==
    IF Len(ignorePatterns) = 0 THEN k
    ELSE [k EXCEPT !.runtime.pathsMatched = IndexFilter(@, ignorePatterns)]

\* variant: the key-pair member shape is accepted when either requirement
\* is set
KeyValidateEitherRequired(k) ==
    IF getRootKeyName(k.root) = RegKeyRootNameUnknown THEN ErrInvalidRootKey
    ELSE IF k.path = <<>> THEN ErrMissingValue
    ELSE IF k.value = "" /\ k.evidenceExpected.ValueExists THEN ErrMissingValue
    ELSE IF k.evidenceExpected.DataOtherThanX THEN Nil
    ELSE IF k.evidenceExpected.SubKeysExist THEN Nil
    ELSE IF k.evidenceExpected.ValueExists THEN Nil
    ELSE IF k.evidenceExpected.KeyExists THEN Nil
    ELSE IF ~k.requirements.KeyRequired /\ ~k.requirements.ValueRequired
         THEN ErrUnknownRebootEvidence
    ELSE Nil

KeyValidate(k) ==
    IF getRootKeyName(k.root) = RegKeyRootNameUnknown THEN ErrInvalidRootKey
    ELSE IF k.path = <<>> THEN ErrMissingValue
    ELSE IF k.value = "" /\ k.evidenceExpected.ValueExists THEN ErrMissingValue
    ELSE IF k.evidenceExpected.DataOtherThanX THEN Nil
    ELSE IF k.evidenceExpected.SubKeysExist THEN Nil
    ELSE IF k.evidenceExpected.ValueExists THEN Nil
    ELSE IF k.evidenceExpected.KeyExists THEN Nil
    ELSE IF ~k.requirements.KeyRequired \/ ~k.requirements.ValueRequired
         THEN ErrUnknownRebootEvidence
    ELSE Nil

----------------------------------------------------------------------------
(* KeyStrings *)

KeyStringsHasEvidence(ks) ==
    IF KeyHasEvidence(ks.Key) THEN TRUE
    ELSE IF ks.runtime.evidenceFound.ValueFound THEN TRUE
    ELSE IF ks.runtime.evidenceFound.AllValuesFound THEN TRUE
    ELSE FALSE

\* a reason names the evidence it reports; term is the search term the text
\* of a ValueFound reason quotes, empty when the text quotes none
Reason(evidence, term) == [evidence |-> evidence, term |-> term]

KeyRebootReasons(k) ==
    (IF k.runtime.evidenceFound.DataOtherThanX
     THEN <<Reason("DataOtherThanX", <<>>)>> ELSE <<>>)
    \o (IF k.runtime.evidenceFound.KeyExists
        THEN <<Reason("KeyExists", <<>>)>> ELSE <<>>)
    \o (IF k.runtime.evidenceFound.SubKeysExist
        THEN <<Reason("SubKeysExist", <<>>)>> ELSE <<>>)
    \o (IF k.runtime.evidenceFound.ValueExists
        THEN <<Reason("ValueExists", <<>>)>> ELSE <<>>)

KeyStringsRebootReasons(ks) ==
    KeyRebootReasons(ks.Key)
    \o (IF ks.runtime.evidenceFound.ValueFound
        THEN <<Reason("ValueFound", ks.runtime.searchTermMatched)>> ELSE <<>>)
    \o (IF ks.runtime.evidenceFound.AllValuesFound
        THEN <<Reason("AllValuesFound", <<>>)>> ELSE <<>>)

----------------------------------------------------------------------------
(* KeyPair *)

KeyPairAddMatchedPath(kp, paths) ==
    [kp EXCEPT !.Keys = [i \in DOMAIN @ |-> KeyAddMatchedPath(@[i], paths)]]

KeyPairErr(kp) ==
    IF KeyErr(kp.Keys[1]) # Nil THEN KeyErr(kp.Keys[1])
    ELSE IF KeyErr(kp.Keys[2]) # Nil THEN KeyErr(kp.Keys[2])
    ELSE Nil

KeyPairHasEvidence(kp) ==
    IF \E i \in DOMAIN kp.Keys : KeyHasEvidence(kp.Keys[i]) THEN TRUE
    ELSE kp.runtime.evidenceFound.PairedValuesDoNotMatch

KeyPairFilter(kp, ignorePatterns) ==
    [kp EXCEPT !.Keys = [i \in DOMAIN @ |-> KeyFilter(@[i], ignorePatterns)]]

KeyPairValidate(kp) ==
    IF Len(kp.Keys) # 2 THEN ErrInvalidNumberOfKeysInKeyPair
    ELSE IF KeyValidate(kp.Keys[1]) # Nil THEN KeyValidate(kp.Keys[1])
    ELSE IF KeyValidate(kp.Keys[2]) # Nil THEN KeyValidate(kp.Keys[2])
    ELSE Nil

KeyPairIgnored(kp) ==
    IF KeyIgnored(kp.Keys[1]) /\ KeyIgnored(kp.Keys[2]) THEN TRUE ELSE FALSE

KeyPairRebootRequired(kp) ==
    IF ~KeyPairIgnored(kp) /\ KeyPairHasEvidence(kp) THEN TRUE ELSE FALSE

KeyPairIsCriticalState(kp) ==
    \E i \in DOMAIN kp.Keys : KeyIsCriticalState(kp.Keys[i])

KeyPairIsWarningState(kp) == ~KeyPairIgnored(kp) /\ KeyPairRebootRequired(kp)

KeyPairIsOKState(kp) ==
    IF KeyPairIgnored(kp) THEN TRUE
    ELSE IF ~KeyPairIgnored(kp) /\ KeyPairRebootRequired(kp) THEN FALSE
    ELSE IF ~KeyPairIgnored(kp) /\ KeyPairErr(kp) # Nil THEN FALSE
    ELSE TRUE

----------------------------------------------------------------------------
(* File.  Configured paths are fully qualified and no environment prefix    *)
(* is set, so String() is the path and the matched path's root is its       *)
(* directory.                                                               *)

FileString(f) == f.path

FileAddMatchedPath(f, paths) ==
    LET old == f.runtime.pathsMatched
        new == {paths[i] : i \in 1..Len(paths)}
    IN  [f EXCEPT !.runtime.pathsMatched =
            [p \in (DOMAIN old) \cup new |->
                IF p \in DOMAIN old THEN old[p]
                ELSE MatchedPath(Dir(FileString(f)), Base(p), Base(p))]]

SetFoundEvidenceFileExists(f) ==
    [f EXCEPT !.runtime.evidenceFound.FileExists = TRUE]

FileValidate(f) == IF f.path = <<>> THEN ErrMissingValue ELSE Nil

FileErr(f) == f.runtime.err

FileHasEvidence(f) == f.runtime.evidenceFound.FileExists

FileIgnored(f) == IndexIgnored(f.runtime.pathsMatched)

FileRebootRequired(f) ==
    IF ~FileIgnored(f) /\ FileHasEvidence(f) THEN TRUE ELSE FALSE

FileIsCriticalState(f) ==
    IF ~FileIgnored(f) /\ FileRebootRequired(f) THEN FALSE
    ELSE IF ~FileIgnored(f) /\ FileErr(f) # Nil
         THEN (IF FileErr(f) = ErrMissingOptionalItem THEN FALSE ELSE TRUE)
    ELSE FALSE

FileIsWarningState(f) == ~FileIgnored(f) /\ FileRebootRequired(f)

FileIsOKState(f) ==
    IF FileIgnored(f) THEN TRUE
    ELSE IF ~FileIgnored(f) /\ FileRebootRequired(f) THEN FALSE
    ELSE IF ~FileIgnored(f) /\ FileErr(f) # Nil
         THEN (IF FileErr(f) = ErrMissingOptionalItem THEN TRUE ELSE FALSE)
    ELSE TRUE

\* variant: a call resets the flags of the paths its patterns do not match
FileFilterReset(f, ignorePatterns) ==
    LET index == f.runtime.pathsMatched
        cleared == [p \in DOMAIN index |-> [index[p] EXCEPT !.ignored = FALSE]]
    IN  [f EXCEPT !.runtime.pathsMatched = IndexFilter(cleared, ignorePatterns)]

FileFilter(f, ignorePatterns) ==
    IF Len(ignorePatterns) = 0 THEN f
    ELSE [f EXCEPT !.runtime.pathsMatched = IndexFilter(@, ignorePatterns)]

----------------------------------------------------------------------------
(* The RebootRequiredAsserter interface: a call on a collection member      *)
(* runs the method of the member's type.  KeyInt, KeyBinary, KeyString and  *)
(* KeyStrings embed Key; a method they do not define is the embedded Key's  *)
(* method, running on the embedded Key.                                     *)

Err(a) ==
    CASE a.kind = "Key" -> KeyErr(a)
      [] a.kind = "KeyPair" -> KeyPairErr(a)
      [] a.kind = "File" -> FileErr(a)
      [] OTHER -> KeyErr(a.Key)

HasEvidence(a) ==
    CASE a.kind = "Key" -> KeyHasEvidence(a)
      [] a.kind = "KeyStrings" -> KeyStringsHasEvidence(a)
      [] a.kind = "KeyPair" -> KeyPairHasEvidence(a)
      [] a.kind = "File" -> FileHasEvidence(a)
      [] OTHER -> KeyHasEvidence(a.Key)

Ignored(a) ==
    CASE a.kind = "Key" -> KeyIgnored(a)
      [] a.kind = "KeyPair" -> KeyPairIgnored(a)
      [] a.kind = "File" -> FileIgnored(a)
      [] OTHER -> KeyIgnored(a.Key)

RebootRequired(a) ==
    CASE a.kind = "Key" -> KeyRebootRequired(a)
      [] a.kind = "KeyPair" -> KeyPairRebootRequired(a)
      [] a.kind = "File" -> FileRebootRequired(a)
      [] OTHER -> KeyRebootRequired(a.Key)

IsCriticalState(a) ==
    CASE a.kind = "Key" -> KeyIsCriticalState(a)
      [] a.kind = "KeyPair" -> KeyPairIsCriticalState(a)
      [] a.kind = "File" -> FileIsCriticalState(a)
      [] OTHER -> KeyIsCriticalState(a.Key)

IsWarningState(a) ==
    CASE a.kind = "Key" -> KeyIsWarningState(a)
      [] a.kind = "KeyPair" -> KeyPairIsWarningState(a)
      [] a.kind = "File" -> FileIsWarningState(a)
      [] OTHER -> KeyIsWarningState(a.Key)

IsOKState(a) ==
    CASE a.kind = "Key" -> KeyIsOKState(a)
      [] a.kind = "KeyPair" -> KeyPairIsOKState(a)
      [] a.kind = "File" -> FileIsOKState(a)
      [] OTHER -> KeyIsOKState(a.Key)

AsserterValidate(a) ==
    CASE a.kind = "Key" -> KeyValidate(a)
      [] a.kind = "KeyPair" -> KeyPairValidate(a)
      [] a.kind = "File" -> FileValidate(a)
      [] OTHER -> KeyValidate(a.Key)

AsserterFilter(a, ignorePatterns) ==
    CASE a.kind = "Key" -> KeyFilter(a, ignorePatterns)
      [] a.kind = "KeyPair" -> KeyPairFilter(a, ignorePatterns)
      [] a.kind = "File" -> FileFilter(a, ignorePatterns)
      [] OTHER -> [a EXCEPT !.Key = KeyFilter(@, ignorePatterns)]

\* the matched-path indexes an asserter holds, one per enclosed Key
PathIndexes(a) ==
    CASE a.kind = "Key" -> <<a.runtime.pathsMatched>>
      [] a.kind = "KeyPair" ->
            [i \in DOMAIN a.Keys |-> a.Keys[i].runtime.pathsMatched]
      [] a.kind = "File" -> <<a.runtime.pathsMatched>>
      [] OTHER -> <<a.Key.runtime.pathsMatched>>

----------------------------------------------------------------------------
(* RebootRequiredAsserters (restart.go) *)

StateOK == "OK"

StateWARNING == "WARNING"

StateCRITICAL == "CRITICAL"

StateUNKNOWN == "UNKNOWN"

\* variant: the loop does not return on the first error
AssertersValidateLast(as) ==
    LET F[n \in 0..Len(as)] ==
            IF n = 0 THEN Nil
            ELSE IF AsserterValidate(as[n]) # Nil THEN AsserterValidate(as[n])
            ELSE F[n - 1]
    IN  F[Len(as)]

\* the loop of Validate: F[n] is the value returned within the first n
\* members, Nil while the loop is still running
AssertersValidate(as) ==
    LET F[n \in 0..Len(as)] ==
            IF n = 0 THEN Nil
            ELSE IF F[n - 1] # Nil THEN F[n - 1]
            ELSE AsserterValidate(as[n])
    IN  F[Len(as)]

\* the members that HasErrors, NumErrors and Errs count
CountsAsError(a, evalIgnored) ==
    /\ Err(a) # Nil
    /\ Err(a) # ErrMissingOptionalItem
    /\ ~(Ignored(a) /\ ~evalIgnored)

HasErrors(as, evalIgnored) ==
    \E i \in 1..Len(as) : CountsAsError(as[i], evalIgnored)

NumErrors(as, evalIgnored) ==
    Cardinality({i \in 1..Len(as) : CountsAsError(as[i], evalIgnored)})

\* variant: the errors of ignored members are left out whatever is asked
ErrsWithoutIgnored(as, evalIgnored) ==
    LET F[n \in 0..Len(as)] ==
            IF n = 0 THEN <<>>
            ELSE IF CountsAsError(as[n], FALSE)
                 THEN Append(F[n - 1], Err(as[n]))
            ELSE F[n - 1]
    IN  F[Len(as)]

Errs(as, evalIgnored) ==
    LET F[n \in 0..Len(as)] ==
            IF n = 0 THEN <<>>
            ELSE IF CountsAsError(as[n], evalIgnored)
                 THEN Append(F[n - 1], Err(as[n]))
            ELSE F[n - 1]
    IN  F[Len(as)]

AssertersRebootRequired(as) == \E i \in 1..Len(as) : RebootRequired(as[i])

NumApplied(as) == Len(as)

NumMatched(as) == Cardinality({i \in 1..Len(as) : RebootRequired(as[i])})

NumNotMatched(as) == Cardinality({i \in 1..Len(as) : ~RebootRequired(as[i])})

\* variant: only the first member is consulted
HasCriticalStateFirstOnly(as) == Len(as) > 0 /\ IsCriticalState(as[1])

HasCriticalState(as) == \E i \in 1..Len(as) : IsCriticalState(as[i])

\* variant: only the first member is consulted
HasWarningStateFirstOnly(as) == Len(as) > 0 /\ IsWarningState(as[1])

HasWarningState(as) == \E i \in 1..Len(as) : IsWarningState(as[i])

AssertersIsOKState(as) == \A i \in 1..Len(as) : IsOKState(as[i])

\* variant: the WARNING case is tried before the CRITICAL case
ServiceStateWarningFirst(as) ==
    IF HasWarningState(as) THEN StateWARNING
    ELSE IF HasCriticalState(as) THEN StateCRITICAL
    ELSE IF AssertersIsOKState(as) THEN StateOK
    ELSE StateUNKNOWN

ServiceState(as) ==
    IF HasCriticalState(as) THEN StateCRITICAL
    ELSE IF HasWarningState(as) THEN StateWARNING
    ELSE IF AssertersIsOKState(as) THEN StateOK
    ELSE StateUNKNOWN

HasIgnored(as) == \E i \in 1..Len(as) : Ignored(as[i])

AssertersFilter(as, ignorePatterns) ==
    [i \in 1..Len(as) |-> AsserterFilter(as[i], ignorePatterns)]

NumIgnored(as) == Cardinality({i \in 1..Len(as) : Ignored(as[i])})

NumNotIgnored(as) == Cardinality({i \in 1..Len(as) : ~Ignored(as[i])})

SelectSeqIgnored(as, want) ==
    LET F[n \in 0..Len(as)] ==
            IF n = 0 THEN <<>>
            ELSE IF Ignored(as[n]) = want THEN Append(F[n - 1], as[n])
            ELSE F[n - 1]
    IN  F[Len(as)]

NotIgnoredItems(as) == SelectSeqIgnored(as, FALSE)

IgnoredItems(as) == SelectSeqIgnored(as, TRUE)

----------------------------------------------------------------------------
(* Outcomes of the operating-system calls *)

RegKeyTypeDWORD == "DWORD"

\* registry.OpenKey
OpenOutcomes == {"ok", "notexist", "err"}

\* Key.GetValue(name, nil): the value's type, ErrNotExist or another error
ValueOutcomes == {RegKeyTypeDWORD, "notexist", "err"}

\* Key.ReadSubKeyNames(0): an error or the names of n subkeys
SubKeyOutcomes ==
    {[ok |-> FALSE, n |-> 0]} \cup {[ok |-> TRUE, n |-> n] : n \in 0..MaxSubKeys}

\* Key.Close and os.Stat
CloseOutcomes == {"ok", "err"}

StatOutcomes == {"ok", "notexist", "err"}

\* name of the i-th subkey; the first one is the one the default ignore
\* pattern names
SubKeyName(i) == IF i = 1 THEN <<"g">> ELSE [j \in 1..i |-> "h"]

strA == <<"a">>

strB == <<"b">>

strXBY == <<"x", "b", " ", "y">>

\* data a value can hold, per asserter type
DataValues(kind) ==
    CASE kind = "KeyInt" -> {0, 1}
      [] kind = "KeyBinary" -> {<<0>>, <<1>>}
      [] kind = "KeyString" -> {strA, strB}
      [] kind = "KeyStrings" -> {<<strA>>, <<strXBY>>, <<<<"A">>, strB>>}
      [] kind = "KeyPair" -> {<<0>>, <<1>>}

\* the zero value a failed fetch returns
ZeroData(kind) == IF kind = "KeyInt" THEN 0 ELSE <<>>

\* Get<Type>Value / the two GetValue calls of gatherKeyPairData: ErrNotExist,
\* another error on the first call, an error on the second call (KeyPair
\* only), or the data
FetchOutcomes(kind) ==
    {[res |-> "notexist", data |-> ZeroData(kind)],
     [res |-> "err", data |-> ZeroData(kind)]}
    \cup (IF kind = "KeyPair" THEN {[res |-> "err2", data |-> ZeroData(kind)]}
          ELSE {})
    \cup {[res |-> "ok", data |-> d] : d \in DataValues(kind)}

----------------------------------------------------------------------------
(* Key: the steps of evaluate.  Each returns <<key, error>>.                *)

\* variant: the opened handle is not saved
openDropsHandle(k, o) ==
    IF k.runtime.handle THEN <<k, ErrKeyAlreadyOpen>>
    ELSE IF o = "notexist"
         THEN (IF k.requirements.KeyRequired THEN <<k, ErrMissingRequiredKey>>
               ELSE <<k, ErrMissingOptionalKey>>)
    ELSE IF o # "ok" THEN <<k, OSError>>
    ELSE <<k, Nil>>

open(k, o) ==
    IF k.runtime.handle THEN <<k, ErrKeyAlreadyOpen>>
    ELSE IF o = "notexist"
         THEN (IF k.requirements.KeyRequired THEN <<k, ErrMissingRequiredKey>>
               ELSE <<k, ErrMissingOptionalKey>>)
    ELSE IF o # "ok" THEN <<k, OSError>>
    ELSE <<[k EXCEPT !.runtime.handle = TRUE], Nil>>

\* variant: the reference to the handle is kept after a successful Close
closeKeepsHandle(k, o) ==
    IF ~k.runtime.handle THEN <<k, Nil>>
    ELSE IF o # "ok" THEN <<k, OSError>>
    ELSE <<k, Nil>>

close(k, o) ==
    IF ~k.runtime.handle THEN <<k, Nil>>
    ELSE IF o # "ok" THEN <<k, OSError>>
    ELSE <<[k EXCEPT !.runtime.handle = FALSE], Nil>>

evalOpenKey(k, o) ==
    LET r == open(k, o)
    IN  IF r[2] # Nil THEN r
        ELSE IF k.evidenceExpected.KeyExists
             THEN <<KeyAddMatchedPath(SetFoundEvidenceKeyExists(r[1]),
                                      <<k.path>>), Nil>>
        ELSE <<r[1], Nil>>

evalSubKeys(k, o) ==
    IF ~k.runtime.handle THEN <<k, ErrKeyNotOpen>>
    ELSE IF k.evidenceExpected.SubKeysExist
         THEN (IF ~o.ok THEN <<k, OSError>>
               ELSE IF o.n > 0
                    THEN <<KeyAddMatchedPath(SetFoundEvidenceSubKeysExist(k),
                              [i \in 1..o.n |-> Join(k.path, SubKeyName(i))]),
                           Nil>>
               ELSE <<k, Nil>>)
    ELSE <<k, Nil>>

\* variant: an absent value is an error whether it is required or not
evalValueAbsentIsError(k, o) ==
    IF ~k.runtime.handle THEN <<k, ErrKeyNotOpen>>
    ELSE IF k.value = "" THEN <<k, Nil>>
    ELSE IF o = "notexist" THEN <<k, ErrMissingValue>>
    ELSE IF o = "err" THEN <<k, OSError>>
    ELSE LET k2 == [k EXCEPT !.runtime.valueType = o]
         IN  IF k.evidenceExpected.ValueExists
             THEN <<KeyAddMatchedPath(SetFoundEvidenceValueExists(k2),
                                      <<k.path>>), Nil>>
             ELSE <<k2, Nil>>

evalValue(k, o) ==
    IF ~k.runtime.handle THEN <<k, ErrKeyNotOpen>>
    ELSE IF k.value = "" THEN <<k, Nil>>
    ELSE IF o = "notexist"
         THEN (IF k.requirements.ValueRequired THEN <<k, ErrMissingValue>>
               ELSE <<k, Nil>>)
    ELSE IF o = "err" THEN <<k, OSError>>
    ELSE LET k2 == [k EXCEPT !.runtime.valueType = o]
         IN  IF k.evidenceExpected.ValueExists
             THEN <<KeyAddMatchedPath(SetFoundEvidenceValueExists(k2),
                                      <<k.path>>), Nil>>
             ELSE <<k2, Nil>>

\* the error evaluate records when evalOpenKey fails
\* variant: a missing optional key is recorded as a missing required item
OpenErrRecordedAsRequired(err) ==
    IF err = ErrMissingOptionalKey THEN ErrMissingRequiredItem
    ELSE IF err = ErrMissingRequiredKey THEN ErrMissingRequiredItem
    ELSE err

OpenErrRecorded(err) ==
    IF err = ErrMissingOptionalKey THEN ErrMissingOptionalItem
    ELSE IF err = ErrMissingRequiredKey THEN ErrMissingRequiredItem
    ELSE err

SetKeyErr(k, err) == [k EXCEPT !.runtime.err = err]

----------------------------------------------------------------------------
(* Typed variants: the part of Evaluate after the embedded Key's evaluate   *)

\* KeyInt, KeyBinary, KeyString: fetch and compare
\* variant: a mismatch is evidence whether DataOtherThanX is expected or not
evalTypedDataAnyMismatch(a, o) ==
    IF o.res = "notexist"
    THEN (IF a.Key.requirements.ValueRequired
          THEN [a EXCEPT !.Key = SetKeyErr(@, ErrMissingValue)]
          ELSE a)
    ELSE IF o.res # "ok" THEN [a EXCEPT !.Key = SetKeyErr(@, OSError)]
    ELSE LET a2 == [a EXCEPT !.runtime.data =
                        IF a.kind = "KeyBinary" THEN @ \o o.data ELSE o.data]
         IN  IF o.data # a.expectedData
             THEN [a2 EXCEPT !.Key = KeyAddMatchedPath(
                        SetFoundEvidenceDataOtherThanX(@), <<a.Key.path>>)]
             ELSE a2

evalTypedData(a, o) ==
    IF o.res = "notexist"
    THEN (IF a.Key.requirements.ValueRequired
          THEN [a EXCEPT !.Key = SetKeyErr(@, ErrMissingValue)]
          ELSE a)
    ELSE IF o.res # "ok" THEN [a EXCEPT !.Key = SetKeyErr(@, OSError)]
    ELSE LET a2 == [a EXCEPT !.runtime.data =
                        IF a.kind = "KeyBinary" THEN @ \o o.data ELSE o.data]
         IN  IF o.data # a.expectedData /\ a.Key.evidenceExpected.DataOtherThanX
             THEN [a2 EXCEPT !.Key = KeyAddMatchedPath(
                        SetFoundEvidenceDataOtherThanX(@), <<a.Key.path>>)]
             ELSE a2

SetFoundEvidenceValueFound(ks) ==
    [ks EXCEPT !.runtime.evidenceFound.ValueFound = TRUE]

SetFoundEvidenceAllValuesFound(ks) ==
    [ks EXCEPT !.runtime.evidenceFound.AllValuesFound = TRUE]

\* KeyStrings.evalExpectedData: state after the first n search terms, with
\* the number of values found; done is set by the early return
evalExpectedDataLoop(ks, n) ==
    LET F[i \in 0..n] ==
            IF i = 0 THEN [ks |-> ks, valuesFound |-> 0, done |-> FALSE]
            ELSE LET prev == F[i - 1]
                     searchTerm == ks.expectedData[i]
                 IN  IF prev.done THEN prev
                     ELSE IF InList(searchTerm, prev.ks.runtime.data, TRUE)
                     THEN LET ks2 == [prev.ks EXCEPT
                                  !.runtime.searchTermMatched = searchTerm]
                          IN  IF ks.additionalEvidence.ValueFound
                              THEN [ks |-> [SetFoundEvidenceValueFound(ks2)
                                        EXCEPT !.Key = KeyAddMatchedPath(@,
                                                        <<ks.Key.path>>)],
                                    valuesFound |-> prev.valuesFound + 1,
                                    done |-> TRUE]
                              ELSE [ks |-> ks2,
                                    valuesFound |-> prev.valuesFound + 1,
                                    done |-> FALSE]
                     ELSE prev
    IN  F[n]

\* variant: one search term found is enough
evalExpectedDataAnyFound(ks) ==
    LET r == evalExpectedDataLoop(ks, Len(ks.expectedData))
    IN  IF r.done THEN r.ks
        ELSE IF ks.additionalEvidence.AllValuesFound /\ r.valuesFound >= 1
             THEN [SetFoundEvidenceAllValuesFound(r.ks)
                      EXCEPT !.Key = KeyAddMatchedPath(@, <<ks.Key.path>>)]
        ELSE r.ks

evalExpectedData(ks) ==
    LET r == evalExpectedDataLoop(ks, Len(ks.expectedData))
    IN  IF r.done THEN r.ks
        ELSE IF ks.additionalEvidence.AllValuesFound
                /\ r.valuesFound = Len(ks.expectedData)
             THEN [SetFoundEvidenceAllValuesFound(r.ks)
                      EXCEPT !.Key = KeyAddMatchedPath(@, <<ks.Key.path>>)]
        ELSE r.ks

evalStringsData(ks, o) ==
    IF o.res = "notexist"
    THEN (IF ks.Key.requirements.ValueRequired
          THEN [ks EXCEPT !.Key = SetKeyErr(@, ErrMissingValue)]
          ELSE ks)
    ELSE IF o.res # "ok" THEN [ks EXCEPT !.Key = SetKeyErr(@, OSError)]
    ELSE evalExpectedData([ks EXCEPT !.runtime.data = @ \o o.data])

----------------------------------------------------------------------------
(* KeyPair *)

SetFoundEvidencePairedValuesDoNotMatch(kp) ==
    [kp EXCEPT !.runtime.evidenceFound.PairedValuesDoNotMatch = TRUE]

gatherKeyPairData(kp, m, o) ==
    IF o.res = "notexist"
    THEN (IF kp.Keys[m].requirements.ValueRequired
          THEN [kp EXCEPT !.Keys[m] = SetKeyErr(@, ErrMissingValue)]
          ELSE kp)
    ELSE IF o.res # "ok" THEN [kp EXCEPT !.Keys[m] = SetKeyErr(@, OSError)]
    ELSE [kp EXCEPT !.runtime.data = Append(@, o.data)]

\* evalKeyPairData indexes data[0] and data[1]
evalKeyPairDataPanics(kp) == Len(kp.runtime.data) < 2

\* variant: only the first member's path is recorded
evalKeyPairDataFirstPath(kp) ==
    IF kp.runtime.data[1] # kp.runtime.data[2]
    THEN KeyPairAddMatchedPath(SetFoundEvidencePairedValuesDoNotMatch(kp),
                               <<kp.Keys[1].path>>)
    ELSE kp

evalKeyPairData(kp) ==
    IF kp.runtime.data[1] # kp.runtime.data[2]
    THEN KeyPairAddMatchedPath(SetFoundEvidencePairedValuesDoNotMatch(kp),
                               <<kp.Keys[1].path, kp.Keys[2].path>>)
    ELSE kp

----------------------------------------------------------------------------
(* File *)

\* variant: a stat error is recorded together with the evidence
FileEvaluateResultErrorWithEvidence(f, o) ==
    IF o = "notexist" THEN f
    ELSE IF o # "ok"
         THEN [SetFoundEvidenceFileExists(f) EXCEPT !.runtime.err = OSError]
    ELSE FileAddMatchedPath(SetFoundEvidenceFileExists(f),
                            <<Clean(FileString(f))>>)

FileEvaluateResult(f, o) ==
    IF o = "notexist" THEN f
    ELSE IF o # "ok" THEN [f EXCEPT !.runtime.err = OSError]
    ELSE FileAddMatchedPath(SetFoundEvidenceFileExists(f),
                            <<Clean(FileString(f))>>)

----------------------------------------------------------------------------
(* Configurations *)

PathSession == <<"S", "\\", "X">>

PathReboot == <<"S", "\\", "R">>

PathPending == <<"S", "\\", "P">>

PathRunOnce == <<"S", "\\", "H">>

PathActive == <<"C", "\\", "A">>

PathComputer == <<"C", "\\", "C">>

PathFile == <<"C", "\\", "F">>

NoEvidence == KeyRebootEvidence(FALSE, FALSE, FALSE, FALSE)

Optional == KeyAssertions(FALSE, FALSE)

\* entries shaped as those of registry.DefaultRebootRequiredAssertions (a
\* KeyStrings, Keys expecting a key, subkeys or a value, a KeyPair) and a File
AssertionTable ==
    << KeyStrings(Key("LOCAL_MACHINE", PathSession, "v",
                     KeyRebootEvidence(FALSE, FALSE, TRUE, FALSE), Optional),
                 <<>>, KeyStringsRebootEvidence(FALSE, FALSE)),
      Key("LOCAL_MACHINE", PathReboot, "",
          KeyRebootEvidence(FALSE, FALSE, FALSE, TRUE), Optional),
      Key("LOCAL_MACHINE", PathPending, "",
          KeyRebootEvidence(FALSE, TRUE, FALSE, FALSE), Optional),
      Key("LOCAL_MACHINE", PathRunOnce, "v",
          KeyRebootEvidence(FALSE, FALSE, TRUE, FALSE),
          KeyAssertions(TRUE, FALSE)),
      KeyPair(<<Key("LOCAL_MACHINE", PathActive, "v", NoEvidence,
                    KeyAssertions(TRUE, TRUE)),
                Key("LOCAL_MACHINE", PathComputer, "v", NoEvidence,
                    KeyAssertions(TRUE, TRUE))>>,
              KeyPairRebootEvidence(TRUE)),
      File(PathFile) >>

EvidenceChoices ==
    {KeyRebootEvidence(d, s, v, k) : d, s, v, k \in BOOLEAN}

RequirementChoices == {KeyAssertions(k, v) : k, v \in BOOLEAN}

\* every Key configuration over one path and one value name, valid or not
AllKeys ==
    {Key(root, path, value, ev, req) :
        root \in {"LOCAL_MACHINE", "NOT_A_ROOT"}, path \in {<<>>, PathPending},
        value \in {"", "v"}, ev \in EvidenceChoices, req \in RequirementChoices}

ValidKeys == {k \in AllKeys : KeyValidate(k) = Nil}

\* members of a KeyPair: the default shape, a member with evidence of its
\* own and members whose key or value is optional
PairMembers(path) ==
    {Key("LOCAL_MACHINE", path, "v", ev, req) :
        ev \in {NoEvidence, KeyRebootEvidence(FALSE, FALSE, FALSE, TRUE),
                KeyRebootEvidence(FALSE, TRUE, FALSE, FALSE)},
        req \in {KeyAssertions(TRUE, TRUE), Optional}}

\* the typed asserters over every valid Key
TypedAsserters(kind) ==
    CASE kind = "KeyInt" -> {KeyInt(k, 0) : k \in ValidKeys}
      [] kind = "KeyBinary" -> {KeyBinary(k, <<0>>) : k \in ValidKeys}
      [] kind = "KeyString" -> {KeyString(k, strA) : k \in ValidKeys}
      [] kind = "KeyStrings" ->
            {KeyStrings(k, <<strA, strB>>, ae) : k \in ValidKeys,
                ae \in {KeyStringsRebootEvidence(FALSE, FALSE),
                        KeyStringsRebootEvidence(TRUE, FALSE),
                        KeyStringsRebootEvidence(FALSE, TRUE)}}

AllKeyPairs ==
    {KeyPair(<<k1, k2>>, KeyPairRebootEvidence(b)) :
        k1 \in PairMembers(PathActive), k2 \in PairMembers(PathComputer),
        b \in BOOLEAN}
    \cup {KeyPair(<<k>>, KeyPairRebootEvidence(TRUE)) :
            k \in PairMembers(PathActive)}

AllFiles == {File(path) : path \in {<<>>, PathFile}}

\* registry.DefaultRebootRequiredIgnoredPaths: one subkey of PathPending
DefaultRebootRequiredIgnoredPaths == <<PathPending \o <<"\\", "g">>>>

PatternLists ==
    { <<>>,
      DefaultRebootRequiredIgnoredPaths,
      << <<"s", "/", "P">> >>,
      << <<"X">>, <<"c", "/">> >> }

----------------------------------------------------------------------------
(* The run *)

Cur == rras[idx]

CurKey(a, m) ==
    CASE a.kind = "Key" -> a
      [] a.kind = "KeyPair" -> a.Keys[m]
      [] OTHER -> a.Key

WithKey(a, m, k) ==
    CASE a.kind = "Key" -> k
      [] a.kind = "KeyPair" -> [a EXCEPT !.Keys[m] = k]
      [] OTHER -> [a EXCEPT !.Key = k]

Pos(s, m, i, ph) == step' = s /\ member' = m /\ idx' = i /\ phase' = ph

\* the running member's Evaluate returns: RebootRequiredAsserters.Evaluate
\* goes on with the next member
Finish ==
    Pos("begin", 1, idx + 1,
        IF idx + 1 > Len(rras) THEN "evaluated" ELSE "evaluating")

\* Key.evaluate returned for member m of asserter a; openFailed says that it
\* returned before registering its deferred close
AfterEvaluate(a, m, openFailed) ==
    CASE a.kind = "Key" ->
            IF openFailed THEN Finish ELSE Pos("close", 1, idx, phase)
      [] a.kind = "KeyPair" ->
            IF \/ KeyErr(a.Keys[m]) # Nil
               \/ KeyHasEvidence(a.Keys[m])
               \/ ~a.additionalEvidence.PairedValuesDoNotMatch
               \/ a.Keys[m].value = ""
            THEN Pos("close", m, idx, phase)
            ELSE Pos("gather", m, idx, phase)
      [] OTHER ->
            IF KeyErr(a.Key) # Nil \/ a.Key.value = ""
            THEN Pos("close", 1, idx, phase)
            ELSE Pos("typed", 1, idx, phase)

Validate ==
    /\ phase = "start"
    /\ phase' = IF AssertersValidate(rras) = Nil THEN "evaluating" ELSE "failed"
    /\ UNCHANGED <<rras, idx, step, member, closeFailures, plugin>>

EvalOpenKey ==
    /\ phase = "evaluating" /\ step = "begin" /\ Cur.kind # "File"
    /\ \E o \in OpenOutcomes :
        LET r == evalOpenKey(CurKey(Cur, member), o)
            k2 == IF r[2] # Nil THEN SetKeyErr(r[1], OpenErrRecorded(r[2]))
                  ELSE r[1]
            a2 == WithKey(Cur, member, k2)
        IN  /\ rras' = [rras EXCEPT ![idx] = a2]
            /\ IF r[2] # Nil THEN AfterEvaluate(a2, member, TRUE)
               ELSE IF KeyHasEvidence(k2) THEN AfterEvaluate(a2, member, FALSE)
               ELSE Pos("value", member, idx, phase)
    /\ UNCHANGED <<closeFailures, plugin>>

EvalValue ==
    /\ phase = "evaluating" /\ step = "value"
    /\ \E o \in ValueOutcomes :
        LET r == evalValue(CurKey(Cur, member), o)
            k2 == IF r[2] # Nil THEN SetKeyErr(r[1], r[2]) ELSE r[1]
            a2 == WithKey(Cur, member, k2)
        IN  /\ rras' = [rras EXCEPT ![idx] = a2]
            /\ IF r[2] # Nil THEN AfterEvaluate(a2, member, FALSE)
               ELSE Pos("subkeys", member, idx, phase)
    /\ UNCHANGED <<closeFailures, plugin>>

EvalSubKeys ==
    /\ phase = "evaluating" /\ step = "subkeys"
    /\ \E o \in SubKeyOutcomes :
        LET r == evalSubKeys(CurKey(Cur, member), o)
            k2 == IF r[2] # Nil THEN SetKeyErr(r[1], r[2]) ELSE r[1]
            a2 == WithKey(Cur, member, k2)
        IN  /\ rras' = [rras EXCEPT ![idx] = a2]
            /\ AfterEvaluate(a2, member, FALSE)
    /\ UNCHANGED <<closeFailures, plugin>>

TypedFetch ==
    /\ phase = "evaluating" /\ step = "typed"
    /\ \E o \in FetchOutcomes(Cur.kind) :
        rras' = [rras EXCEPT ![idx] =
                    IF Cur.kind = "KeyStrings" THEN evalStringsData(Cur, o)
                    ELSE evalTypedData(Cur, o)]
    /\ Pos("close", 1, idx, phase)
    /\ UNCHANGED <<closeFailures, plugin>>

GatherKeyPairData ==
    /\ phase = "evaluating" /\ step = "gather"
    /\ \E o \in FetchOutcomes("KeyPair") :
        rras' = [rras EXCEPT ![idx] = gatherKeyPairData(Cur, member, o)]
    /\ IF member < Len(Cur.Keys) THEN Pos("begin", member + 1, idx, phase)
       ELSE Pos("compare", member, idx, phase)
    /\ UNCHANGED <<closeFailures, plugin>>

EvalKeyPairData ==
    /\ phase = "evaluating" /\ step = "compare"
    /\ IF evalKeyPairDataPanics(Cur)
       THEN /\ Pos("close", member, idx, "panicking")
            /\ UNCHANGED rras
       ELSE /\ rras' = [rras EXCEPT ![idx] = evalKeyPairData(Cur)]
            /\ Pos("close", member, idx, phase)
    /\ UNCHANGED <<closeFailures, plugin>>

\* the deferred close / closeAndLog calls, last registered first
Close ==
    /\ phase \in {"evaluating", "panicking"} /\ step = "close"
    /\ \E o \in CloseOutcomes :
        LET r == close(CurKey(Cur, member), o)
        IN  /\ r[2] # Nil => closeFailures < MaxCloseFailures
            /\ closeFailures' = closeFailures + (IF r[2] # Nil THEN 1 ELSE 0)
            /\ rras' = [rras EXCEPT ![idx] = WithKey(Cur, member, r[1])]
    /\ IF member > 1 THEN Pos("close", member - 1, idx, phase)
       ELSE IF phase = "panicking" THEN Pos("begin", 1, idx, "panicked")
       ELSE Finish
    /\ UNCHANGED plugin

FileEvaluate ==
    /\ phase = "evaluating" /\ step = "begin" /\ Cur.kind = "File"
    /\ \E o \in StatOutcomes :
        rras' = [rras EXCEPT ![idx] = FileEvaluateResult(Cur, o)]
    /\ Finish
    /\ UNCHANGED <<closeFailures, plugin>>

Filter ==
    /\ phase = "evaluated"
    /\ \E ignorePatterns \in PatternLists :
        rras' = AssertersFilter(rras, ignorePatterns)
    /\ UNCHANGED <<phase, idx, step, member, closeFailures, plugin>>

\* the ways to pick n entries of a table of t entries, in the table's order
Picks(n, t) == {f \in [1..n -> 1..t] : \A i \in 1..(n - 1) : f[i] < f[i + 1]}

InitRun ==
    /\ phase = "start" /\ idx = 1 /\ step = "begin" /\ member = 1
    /\ closeFailures = 0
    /\ plugin = <<>>

\* collections built from entries of the default table
Init ==
    /\ \E n \in 1..MaxAsserters : \E f \in Picks(n, Len(AssertionTable)) :
            rras = [i \in 1..n |-> AssertionTable[f[i]]]
    /\ InitRun

\* one asserter of any configuration
InitAsserter ==
    /\ \/ rras \in {<<a>> : a \in AllKeys \cup AllKeyPairs \cup AllFiles}
       \/ \E kind \in TypedKinds : rras \in {<<a>> : a \in TypedAsserters(kind)}
    /\ InitRun

Next ==
    \/ Validate
    \/ EvalOpenKey
    \/ EvalValue
    \/ EvalSubKeys
    \/ TypedFetch
    \/ GatherKeyPairData
    \/ EvalKeyPairData
    \/ Close
    \/ FileEvaluate
    \/ Filter

Spec == Init /\ [][Next]_vars

SpecAsserter == InitAsserter /\ [][Next]_vars

----------------------------------------------------------------------------
(* The run of check_reboot: main validates and evaluates the collection,    *)
(* applies the default ignore patterns unless that is disabled, and then    *)
(* builds its output from the collection.                                   *)

\* files.DefaultRebootRequiredIgnoredPaths
FileDefaultRebootRequiredIgnoredPaths == <<>>

\* variant: the default patterns are applied whatever the option says
applyIgnorePatternsAlways(allAssertions, disableDefaultIgnored) ==
    AssertersFilter(allAssertions,
        DefaultRebootRequiredIgnoredPaths
            \o FileDefaultRebootRequiredIgnoredPaths)

applyIgnorePatterns(allAssertions, disableDefaultIgnored) ==
    IF disableDefaultIgnored THEN allAssertions
    ELSE AssertersFilter(allAssertions,
            DefaultRebootRequiredIgnoredPaths
                \o FileDefaultRebootRequiredIgnoredPaths)

\* the reasons of every type; KeyInt, KeyBinary and KeyString use the
\* embedded Key's method
KeyPairRebootReasons(kp) ==
    LET F[n \in 0..Len(kp.Keys)] ==
            IF n = 0 THEN <<>> ELSE F[n - 1] \o KeyRebootReasons(kp.Keys[n])
    IN  F[Len(kp.Keys)]
        \o (IF kp.runtime.evidenceFound.PairedValuesDoNotMatch
            THEN <<Reason("PairedValuesDoNotMatch", <<>>)>> ELSE <<>>)

FileRebootReasons(f) ==
    IF f.runtime.evidenceFound.FileExists
    THEN <<Reason("FileExists", <<>>)>> ELSE <<>>

RebootReasons(a) ==
    CASE a.kind = "Key" -> KeyRebootReasons(a)
      [] a.kind = "KeyStrings" -> KeyStringsRebootReasons(a)
      [] a.kind = "KeyPair" -> KeyPairRebootReasons(a)
      [] a.kind = "File" -> FileRebootReasons(a)
      [] OTHER -> KeyRebootReasons(a.Key)

StateExitCode(label) ==
    CASE label = StateOK -> 0
      [] label = StateWARNING -> 1
      [] label = StateCRITICAL -> 2
      [] OTHER -> 3

\* variant: the label is the one the text stands for
CheckRebootOneLineSummaryOwnLabel(assertions, evalIgnored) ==
    IF AssertersRebootRequired(assertions)
    THEN [label |-> StateWARNING, text |-> "Reboot needed"]
    ELSE IF HasErrors(assertions, evalIgnored)
    THEN [label |-> StateCRITICAL, text |-> "Reboot evaluation failed"]
    ELSE IF AssertersIsOKState(assertions)
    THEN [label |-> StateOK, text |-> "Reboot not needed"]
    ELSE [label |-> "", text |-> "BUG"]

\* reports.CheckRebootOneLineSummary: the label and the text that follows it
CheckRebootOneLineSummary(assertions, evalIgnored) ==
    IF AssertersRebootRequired(assertions)
    THEN [label |-> ServiceState(assertions), text |-> "Reboot needed"]
    ELSE IF HasErrors(assertions, evalIgnored)
    THEN [label |-> ServiceState(assertions),
          text |-> "Reboot evaluation failed"]
    ELSE IF AssertersIsOKState(assertions)
    THEN [label |-> ServiceState(assertions), text |-> "Reboot not needed"]
    ELSE [label |-> "", text |-> "BUG"]

\* a line of the report: a heading, or a reason of member number of, with
\* the additional context lines after it when detail is set
ReportLine(text, of, reason, detail) ==
    [text |-> text, of |-> of, reason |-> reason, detail |-> detail]

Heading(text) == ReportLine(text, 0, Reason("", <<>>), FALSE)

\* reports.writeAssertions over the members of the collection that are
\* ignored (want) or not
writeAssertions(assertions, want, verbose) ==
    LET R(n) == RebootReasons(assertions[n])
        F[n \in 0..Len(assertions)] ==
            IF n = 0 THEN <<>>
            ELSE IF Ignored(assertions[n]) = want /\ HasEvidence(assertions[n])
                 THEN F[n - 1] \o [i \in DOMAIN R(n) |->
                                    ReportLine("reason", n, R(n)[i], verbose)]
            ELSE F[n - 1]
    IN  F[Len(assertions)]

\* reports.CheckRebootReport
CheckRebootReport(assertions, showIgnored, verbose) ==
    (IF AssertersRebootRequired(assertions)
     THEN <<Heading("Reboot required because:")>>
            \o writeAssertions(assertions, FALSE, verbose)
     ELSE IF AssertersIsOKState(assertions)
     THEN <<Heading("Reboot not required")>>
     ELSE <<>>)
    \o (IF HasIgnored(assertions) /\ showIgnored
        THEN <<Heading("Assertions ignored:")>>
                \o writeAssertions(assertions, TRUE, verbose)
        ELSE <<>>)

ErrRebootRequired == "ErrRebootRequired"

\* variant: with show-ignored set, ignored members count for the exit code
mainResultsCountIgnored(allAssertions, showIgnored, verbose) ==
    [ExitStatusCode |->
        IF showIgnored /\ HasIgnored(allAssertions)
        THEN StateExitCode(StateWARNING)
        ELSE StateExitCode(ServiceState(allAssertions)),
     ServiceOutput |-> CheckRebootOneLineSummary(allAssertions, FALSE),
     LongServiceOutput |->
        CheckRebootReport(allAssertions, showIgnored, verbose),
     Errors |->
        IF ~AssertersIsOKState(allAssertions)
        THEN (IF AssertersRebootRequired(allAssertions)
              THEN <<ErrRebootRequired>> ELSE <<>>)
             \o (IF HasErrors(allAssertions, FALSE)
                 THEN Errs(allAssertions, FALSE) ELSE <<>>)
        ELSE <<>>]

\* what main stores in the plugin after applyIgnorePatterns
mainResults(allAssertions, showIgnored, verbose) ==
    [ExitStatusCode |-> StateExitCode(ServiceState(allAssertions)),
     ServiceOutput |-> CheckRebootOneLineSummary(allAssertions, FALSE),
     LongServiceOutput |->
        CheckRebootReport(allAssertions, showIgnored, verbose),
     Errors |->
        IF ~AssertersIsOKState(allAssertions)
        THEN (IF AssertersRebootRequired(allAssertions)
              THEN <<ErrRebootRequired>> ELSE <<>>)
             \o (IF HasErrors(allAssertions, FALSE)
                 THEN Errs(allAssertions, FALSE) ELSE <<>>)
        ELSE <<>>]

\* what main stores in the plugin when Validate fails
validationFailure(err) ==
    [ExitStatusCode |-> StateExitCode(StateCRITICAL),
     ServiceOutput |->
        [label |-> StateCRITICAL,
         text |-> "Failed to validate list of reboot evaluations"],
     LongServiceOutput |-> <<>>,
     Errors |-> <<err>>]

\* entries of the default table, and malformed entries that Validate rejects
MainTable ==
    << Key("NOT_A_ROOT", PathReboot, "",
           KeyRebootEvidence(FALSE, FALSE, FALSE, TRUE), Optional),
       AssertionTable[1],
       AssertionTable[3],
       Key("LOCAL_MACHINE", <<>>, "",
           KeyRebootEvidence(FALSE, FALSE, FALSE, TRUE), Optional),
       AssertionTable[5],
       KeyPair(<<Key("LOCAL_MACHINE", PathActive, "v", NoEvidence,
                     KeyAssertions(TRUE, TRUE))>>,
               KeyPairRebootEvidence(TRUE)),
       AssertionTable[6],
       Key("LOCAL_MACHINE", PathRunOnce, "v", NoEvidence, Optional),
       Key("NOT_A_ROOT", PathRunOnce, "",
           KeyRebootEvidence(FALSE, FALSE, FALSE, TRUE), Optional) >>

ApplyIgnorePatterns ==
    /\ phase = "evaluated"
    /\ \E disableDefaultIgnored \in BOOLEAN :
        rras' = applyIgnorePatterns(rras, disableDefaultIgnored)
    /\ phase' = "filtered"
    /\ UNCHANGED <<idx, step, member, closeFailures, plugin>>

\* perf data, state, summary and report are read from the collection and
\* stored in the plugin; the two flags are the command line's
Report ==
    /\ phase = "filtered"
    /\ \E showIgnored \in BOOLEAN : \E verbose \in BOOLEAN :
            plugin' = <<mainResults(rras, showIgnored, verbose)>>
    /\ phase' = "reported"
    /\ UNCHANGED <<rras, idx, step, member, closeFailures>>

\* main returns when Validate fails
ValidateMain ==
    /\ phase = "start"
    /\ LET err == AssertersValidate(rras)
       IN  IF err = Nil
           THEN phase' = "evaluating" /\ UNCHANGED plugin
           ELSE /\ phase' = "failed"
                /\ plugin' = <<validationFailure(err)>>
    /\ UNCHANGED <<rras, idx, step, member, closeFailures>>

InitMain ==
    /\ \E n \in 1..MaxAsserters : \E f \in Picks(n, Len(MainTable)) :
            rras = [i \in 1..n |-> MainTable[f[i]]]
    /\ InitRun

NextMain ==
    \/ ValidateMain
    \/ EvalOpenKey
    \/ EvalValue
    \/ EvalSubKeys
    \/ TypedFetch
    \/ GatherKeyPairData
    \/ EvalKeyPairData
    \/ Close
    \/ FileEvaluate
    \/ ApplyIgnorePatterns
    \/ Report

SpecMain == InitMain /\ [][NextMain]_vars

TypeOK ==
    /\ phase \in {"start", "failed", "evaluating", "panicking", "evaluated",
                  "panicked", "filtered", "reported"}
    /\ idx \in 1..(Len(rras) + 1)
    /\ closeFailures \in 0..MaxCloseFailures
    /\ Len(plugin) <= 1

----------------------------------------------------------------------------
(* Properties *)

Members == 1..Len(rras)

Evaluated == phase = "evaluated"

\* a step that is a Filter call
FilterStep == phase = "evaluated" /\ phase' = "evaluated"

\* the matched paths of an asserter, as <<enclosed key number, path>>
MatchedPathsOf(a) ==
    UNION {{<<n, p>> : p \in DOMAIN PathIndexes(a)[n]} :
                n \in DOMAIN PathIndexes(a)}

PathIgnored(a, np) == PathIndexes(a)[np[1]][np[2]].ignored

ClearIndex(index) ==
    [p \in DOMAIN index |-> [index[p] EXCEPT !.ignored = FALSE]]

ClearKey(k) == [k EXCEPT !.runtime.pathsMatched = ClearIndex(@)]

\* an asserter with the ignored flag of every matched path cleared
StripIgnored(a) ==
    CASE a.kind = "Key" -> ClearKey(a)
      [] a.kind = "KeyPair" ->
            [a EXCEPT !.Keys = [i \in DOMAIN @ |-> ClearKey(@[i])]]
      [] a.kind = "File" -> ClearKey(a)
      [] OTHER -> [a EXCEPT !.Key = ClearKey(@)]

\* C1: ServiceState is CRITICAL if any member is in a critical state;
\* otherwise WARNING if any member is in a warning state; otherwise OK if
\* every member is in an OK state.
C1_ServiceStatePrecedence ==
    LET crit == \E i \in Members : IsCriticalState(rras[i])
        warn == \E i \in Members : IsWarningState(rras[i])
        ok == \A i \in Members : IsOKState(rras[i])
    IN  /\ crit => ServiceState(rras) = StateCRITICAL
        /\ ~crit /\ warn => ServiceState(rras) = StateWARNING
        /\ ~crit /\ ~warn /\ ok => ServiceState(rras) = StateOK

\* an evaluated collection with a critical and a warning member
C1_Witness ==
    /\ Evaluated
    /\ \E i, j \in Members :
        IsCriticalState(rras[i]) /\ IsWarningState(rras[j])
    /\ ServiceState(rras) = StateCRITICAL

\* C2 as stated: a collection with a member that has recorded evidence and
\* is not ignored has ServiceState WARNING, whatever errors other members
\* hold.
C2_WarningNotMasked ==
    Evaluated =>
        ((\E i \in Members : HasEvidence(rras[i]) /\ ~Ignored(rras[i]))
            => ServiceState(rras) = StateWARNING)

\* C2 amended: a collection with a member whose RebootRequired is true has
\* ServiceState WARNING when no member is in a critical state, and CRITICAL
\* when one is.
C2_WarningUnlessCritical ==
    Evaluated =>
        ((\E i \in Members : RebootRequired(rras[i]))
            => ServiceState(rras) =
                IF \E j \in Members : IsCriticalState(rras[j])
                THEN StateCRITICAL ELSE StateWARNING)

\* a member requires a reboot while another member failed on a missing
\* required item
C2_Witness ==
    /\ Evaluated
    /\ \E i, j \in Members :
        /\ i # j
        /\ RebootRequired(rras[i])
        /\ Err(rras[j]) = ErrMissingRequiredItem /\ ~HasEvidence(rras[j])
    /\ ServiceState(rras) = StateCRITICAL

C4_ServiceStateNeverUnknown ==
    Evaluated =>
        ServiceState(rras) \in {StateOK, StateWARNING, StateCRITICAL}

\* C5: for Key, KeyInt, KeyBinary, KeyString, KeyStrings and File,
\* IsWarningState holds iff the asserter is not ignored and RebootRequired;
\* IsCriticalState holds iff it is not ignored, not RebootRequired and holds
\* an error other than ErrMissingOptionalItem; IsOKState holds in every other
\* case, and whenever the asserter is ignored.
C5_StateClassification ==
    \A i \in Members :
        LET a == rras[i]
            warning == ~Ignored(a) /\ RebootRequired(a)
            critical == /\ ~Ignored(a) /\ ~RebootRequired(a)
                        /\ Err(a) # Nil /\ Err(a) # ErrMissingOptionalItem
        IN  a.kind # "KeyPair" =>
                /\ IsWarningState(a) <=> warning
                /\ IsCriticalState(a) <=> critical
                /\ IsOKState(a) <=> (~warning /\ ~critical)
                /\ Ignored(a) => IsOKState(a)

\* an evaluated asserter that misses an optional item, and so is OK with an
\* error recorded
C5_Witness ==
    /\ Evaluated
    /\ \E i \in Members :
        /\ rras[i].kind # "KeyPair"
        /\ Err(rras[i]) = ErrMissingOptionalItem
        /\ IsOKState(rras[i]) /\ ~IsCriticalState(rras[i])

\* C6: for every asserter type, Ignored is true iff the asserter has at least
\* one matched path and every matched path is marked ignored; it is false
\* when there is no matched path.
C6_IgnoredIffAllPathsIgnored ==
    Evaluated =>
        \A i \in Members :
            Ignored(rras[i]) <=>
                /\ MatchedPathsOf(rras[i]) # {}
                /\ \A np \in MatchedPathsOf(rras[i]) : PathIgnored(rras[i], np)

\* C7: for every asserter type, RebootRequired is true iff HasEvidence is
\* true and Ignored is false.
C7_RebootRequiredIffEvidenceNotIgnored ==
    Evaluated =>
        \A i \in Members :
            RebootRequired(rras[i]) <=>
                (HasEvidence(rras[i]) /\ ~Ignored(rras[i]))

\* the path contains the pattern once both are lower-cased and both use
\* forward slashes
MatchesPattern(path, pattern) ==
    Contains(ToSlash(ToLower(path)), ToSlash(ToLower(pattern)))

\* C8: a Filter call marks a matched path ignored iff the normalized path
\* contains one of the normalized patterns of the call (case-insensitive,
\* "/" and "\" alike); a path marked by an earlier call stays marked.
C8_FilterMarksMatchingPaths ==
    Evaluated =>
        \A ignorePatterns \in PatternLists :
            LET filtered == AssertersFilter(rras, ignorePatterns)
            IN  \A i \in Members : \A np \in MatchedPathsOf(rras[i]) :
                    PathIgnored(filtered[i], np) <=>
                        \/ PathIgnored(rras[i], np)
                        \/ \E k \in 1..Len(ignorePatterns) :
                                MatchesPattern(np[2], ignorePatterns[k])

\* a path is marked that the patterns match only once case and separators
\* are normalized, and another path is left unmarked
C8_Witness ==
    /\ Evaluated
    /\ \E i \in Members : \E np \in MatchedPathsOf(rras[i]) :
        /\ PathIgnored(rras[i], np)
        /\ \A ignorePatterns \in PatternLists :
            \A k \in 1..Len(ignorePatterns) :
                ~Contains(np[2], ignorePatterns[k])
    /\ \E i \in Members : \E np \in MatchedPathsOf(rras[i]) :
            ~PathIgnored(rras[i], np)

\* C9: a second Filter call with the pattern list of the first leaves the
\* collection, and so every ignored flag, as the first call left it.
C9_FilterIdempotent ==
    Evaluated =>
        \A ignorePatterns \in PatternLists :
            LET once == AssertersFilter(rras, ignorePatterns)
            IN  AssertersFilter(once, ignorePatterns) = once

\* Filter has marked the paths of one member and left another member's
\* paths unmarked
C9_Witness ==
    /\ Evaluated
    /\ \E i, j \in Members :
        /\ Ignored(rras[i]) /\ IgnoredItems(rras) # <<>>
        /\ MatchedPathsOf(rras[j]) # {} /\ ~Ignored(rras[j])
        /\ NotIgnoredItems(rras) # <<>>

\* every matched path of the asserter is marked ignored, and there is one
AllPathsIgnored(a) ==
    /\ MatchedPathsOf(a) # {}
    /\ \A np \in MatchedPathsOf(a) : PathIgnored(a, np)

\* C10: a Filter call changes nothing but ignored flags (configuration,
\* error, evidence and the set of matched paths stay), and an asserter whose
\* matched paths it leaves all ignored is not counted by NumMatched while its
\* HasEvidence stays as it was.
C10_FilterChangesOnlyIgnoredFlags ==
    [][FilterStep =>
        /\ Len(rras') = Len(rras)
        /\ \A i \in Members :
            /\ StripIgnored(rras'[i]) = StripIgnored(rras[i])
            /\ Err(rras'[i]) = Err(rras[i])
            /\ HasEvidence(rras'[i]) = HasEvidence(rras[i])
        /\ NumMatched(rras') =
            Cardinality({i \in Members :
                RebootRequired(rras'[i]) /\ ~AllPathsIgnored(rras'[i])})]_vars

\* the part of C10 that holds of every asserter type: a Filter call changes
\* nothing but ignored flags, and an asserter whose Ignored is true after it
\* is not counted by NumMatched while its HasEvidence stays as it was.
C10_FilterFrame ==
    [][FilterStep =>
        /\ Len(rras') = Len(rras)
        /\ \A i \in Members :
            /\ StripIgnored(rras'[i]) = StripIgnored(rras[i])
            /\ Err(rras'[i]) = Err(rras[i])
            /\ HasEvidence(rras'[i]) = HasEvidence(rras[i])
        /\ NumMatched(rras') = NumMatched(NotIgnoredItems(rras'))]_vars

\* the collection without its i-th member
Without(as, i) == SubSeq(as, 1, i - 1) \o SubSeq(as, i + 1, Len(as))

\* C11: a Key with matched paths of which at least one is not marked ignored
\* is not Ignored, still reports RebootRequired and a warning state (WARNING
\* for the collection unless a member is critical), is counted by NumMatched
\* and is not counted by NumIgnored.
C11_PartlyIgnoredKeyStillMatched ==
    Evaluated =>
        \A i \in Members :
            (/\ rras[i].kind = "Key"
             /\ \E np \in MatchedPathsOf(rras[i]) : ~PathIgnored(rras[i], np))
            => /\ ~Ignored(rras[i])
               /\ RebootRequired(rras[i])
               /\ IsWarningState(rras[i])
               /\ ~HasCriticalState(rras) => ServiceState(rras) = StateWARNING
               /\ NumMatched(rras) = NumMatched(Without(rras, i)) + 1
               /\ NumIgnored(rras) = NumIgnored(Without(rras, i))

\* a Key with one matched path per subkey, one of them marked ignored and
\* another one not
C11_Witness ==
    /\ Evaluated
    /\ \E i \in Members :
        /\ rras[i].kind = "Key"
        /\ rras[i].runtime.evidenceFound.SubKeysExist
        /\ \E np, nq \in MatchedPathsOf(rras[i]) :
            PathIgnored(rras[i], np) /\ ~PathIgnored(rras[i], nq)
        /\ NumMatched(rras) = 1 /\ NumIgnored(rras) = 0

\* C12: an asserter whose recorded error is ErrMissingOptionalItem is in an
\* OK state, never in a critical state, and is left out of HasErrors,
\* NumErrors and Errs; a collection whose members found no evidence and hold
\* no error other than ErrMissingOptionalItem has NumMatched = 0,
\* NumIgnored = 0 and ServiceState OK.
C12_MissingOptionalItemIsOK ==
    Evaluated =>
        /\ \A i \in Members :
            Err(rras[i]) = ErrMissingOptionalItem =>
                /\ IsOKState(rras[i]) /\ ~IsCriticalState(rras[i])
                /\ \A b \in BOOLEAN :
                    /\ HasErrors(rras, b) = HasErrors(Without(rras, i), b)
                    /\ NumErrors(rras, b) = NumErrors(Without(rras, i), b)
                    /\ Errs(rras, b) = Errs(Without(rras, i), b)
        /\ (\A i \in Members :
                /\ ~HasEvidence(rras[i])
                /\ Err(rras[i]) \in {Nil, ErrMissingOptionalItem})
            => /\ NumMatched(rras) = 0 /\ NumIgnored(rras) = 0
               /\ ServiceState(rras) = StateOK

\* C13: Key.evaluate runs open-key, then the named-value check, then the
\* subkey enumeration, and once a step has recorded evidence no later step
\* probes the registry: the value check and the subkey enumeration are
\* reached only with the key open, and a step that is about to query the
\* registry finds no evidence recorded for the key.
C13_EvidenceShortCircuits ==
    (phase = "evaluating" /\ step \in {"value", "subkeys"}) =>
        LET k == CurKey(Cur, member)
        IN  /\ k.runtime.handle
            /\ (step = "value" /\ k.value # "") => ~KeyHasEvidence(k)
            /\ (step = "subkeys" /\ k.evidenceExpected.SubKeysExist)
                    => ~KeyHasEvidence(k)

\* RebootRequiredAsserters.Evaluate has called Evaluate on member j
Invoked(j) == j < idx \/ (j = idx /\ (step # "begin" \/ phase = "panicked"))

\* the run has left RebootRequiredAsserters.Evaluate
EvaluateOver == phase \in {"evaluated", "panicked"}

\* C14: an error recorded at a step of one asserter's Evaluate ends that
\* asserter's Evaluate (only the deferred closes remain), and it does not end
\* the collection's Evaluate: once that is over, Evaluate has been called on
\* every member, whatever errors members recorded.
C14_ErrorsDoNotAbortCollection ==
    /\ (phase = "evaluating" /\ Err(Cur) # Nil) => step = "close"
    /\ (EvaluateOver /\ \E i \in Members : Err(rras[i]) # Nil)
            => \A j \in Members : Invoked(j)

\* the registry keys an asserter encloses
KeysOf(a) ==
    CASE a.kind = "Key" -> <<a>>
      [] a.kind = "KeyPair" -> a.Keys
      [] a.kind = "File" -> <<>>
      [] OTHER -> <<a.Key>>

\* Evaluate has returned (or has been unwound) for member j
Returned(j) == j < idx \/ EvaluateOver

\* C15: once Evaluate has returned for a registry asserter of any type, on
\* any exit path, none of its keys holds a handle, provided that no Close
\* call of the operating system failed.
C15_HandlesReleased ==
    closeFailures = 0 =>
        \A j \in Members :
            Returned(j) =>
                \A n \in DOMAIN KeysOf(rras[j]) :
                    ~KeysOf(rras[j])[n].runtime.handle

\* a KeyPair that returned early with both keys opened: the first key's
\* value was read, the second key's required value is absent
C15_Witness ==
    /\ Evaluated /\ closeFailures = 0
    /\ \E j \in Members :
        /\ rras[j].kind = "KeyPair"
        /\ Len(rras[j].runtime.data) = 1
        /\ rras[j].Keys[1].runtime.valueType # ""
        /\ KeyErr(rras[j].Keys[2]) = ErrMissingValue
        /\ \A n \in DOMAIN rras[j].Keys : ~rras[j].Keys[n].runtime.handle

\* C16: KeyPair.Evaluate processes its members in order, and if the first
\* member records an error or evidence of its own, the second member is never
\* opened or read: its runtime state stays the zero value.
C16_SecondMemberUntouched ==
    \A j \in Members :
        (rras[j].kind = "KeyPair" /\ Len(rras[j].Keys) = 2) =>
            /\ (j = idx /\ member = 2) =>
                    rras[j].Keys[1].runtime # KeyRuntime
            /\ (\/ KeyErr(rras[j].Keys[1]) # Nil
                \/ KeyHasEvidence(rras[j].Keys[1]))
                    => rras[j].Keys[2].runtime = KeyRuntime

\* C17: for a KeyPair with PairedValuesDoNotMatch configured whose two
\* members' value data were both retrieved: identical data record no evidence
\* and no matched path; differing data record PairedValuesDoNotMatch evidence
\* and both members' paths as matched paths.
C17_PairedValuesCompared ==
    \A j \in Members :
        (/\ Returned(j)
         /\ rras[j].kind = "KeyPair" /\ Len(rras[j].Keys) = 2
         /\ rras[j].additionalEvidence.PairedValuesDoNotMatch
         /\ Len(rras[j].runtime.data) = 2)
        => LET kp == rras[j]
               paths == {np[2] : np \in MatchedPathsOf(kp)}
           IN  IF kp.runtime.data[1] = kp.runtime.data[2]
               THEN /\ ~kp.runtime.evidenceFound.PairedValuesDoNotMatch
                    /\ ~HasEvidence(kp)
                    /\ paths = {}
               ELSE /\ kp.runtime.evidenceFound.PairedValuesDoNotMatch
                    /\ HasEvidence(kp)
                    /\ paths = {kp.Keys[1].path, kp.Keys[2].path}

\* a KeyPair whose members hold different data, with evidence and both paths
\* recorded
C17_Witness ==
    /\ Evaluated
    /\ \E j \in Members :
        /\ rras[j].kind = "KeyPair"
        /\ Len(rras[j].runtime.data) = 2
        /\ rras[j].runtime.data[1] # rras[j].runtime.data[2]
        /\ rras[j].runtime.evidenceFound.PairedValuesDoNotMatch
        /\ Cardinality(MatchedPathsOf(rras[j])) = 4

\* none of the four expected-evidence flags of a Key is set
NoFlagSet(k) ==
    /\ ~k.evidenceExpected.DataOtherThanX /\ ~k.evidenceExpected.SubKeysExist
    /\ ~k.evidenceExpected.ValueExists /\ ~k.evidenceExpected.KeyExists

\* Validate has run on a collection whose only member is a Key, and the run
\* went on or stopped according to its result
KeyValidated(result) ==
    phase # "start" => (phase = "failed" <=> result # Nil)

\* C18 as stated: Key.Validate fails with ErrInvalidRootKey when the root is
\* not a recognized root; otherwise with ErrMissingValue when the path is
\* empty; otherwise with ErrUnknownRebootEvidence when no expected-evidence
\* flag is set, unless KeyRequired and ValueRequired are both true; and it
\* succeeds in the remaining cases.
C18_KeyValidateCases ==
    \A j \in Members :
        rras[j].kind = "Key" =>
            LET k == rras[j]
                result ==
                    CASE k.root \notin {"LOCAL_MACHINE", "CURRENT_USER"} ->
                            ErrInvalidRootKey
                      [] OTHER ->
                            IF k.path = <<>> THEN ErrMissingValue
                            ELSE IF /\ NoFlagSet(k)
                                    /\ ~(/\ k.requirements.KeyRequired
                                         /\ k.requirements.ValueRequired)
                                 THEN ErrUnknownRebootEvidence
                            ELSE Nil
            IN  KeyValidate(k) = result /\ KeyValidated(result)

\* C18 amended: as C18, with one more failure between the empty path and the
\* evidence flags: ErrMissingValue when ValueExists is expected and no value
\* name is supplied.
C18_KeyValidateCasesWithValueName ==
    \A j \in Members :
        rras[j].kind = "Key" =>
            LET k == rras[j]
                result ==
                    CASE k.root \notin {"LOCAL_MACHINE", "CURRENT_USER"} ->
                            ErrInvalidRootKey
                      [] OTHER ->
                            IF k.path = <<>> THEN ErrMissingValue
                            ELSE IF k.value = ""
                                    /\ k.evidenceExpected.ValueExists
                                 THEN ErrMissingValue
                            ELSE IF /\ NoFlagSet(k)
                                    /\ ~(/\ k.requirements.KeyRequired
                                         /\ k.requirements.ValueRequired)
                                 THEN ErrUnknownRebootEvidence
                            ELSE Nil
            IN  KeyValidate(k) = result /\ KeyValidated(result)

\* Validate has rejected a Key with a recognized root and a path that
\* expects ValueExists and names no value
C18_Witness ==
    /\ phase = "failed"
    /\ \E j \in Members :
        /\ rras[j].kind = "Key"
        /\ rras[j].root = "LOCAL_MACHINE" /\ rras[j].path # <<>>
        /\ rras[j].value = "" /\ rras[j].evidenceExpected.ValueExists
        /\ KeyValidate(rras[j]) = ErrMissingValue

\* C19: RebootRequiredAsserters.Validate returns the error of the first
\* member, in collection order, whose Validate fails, as that member returns
\* it, and nil only if every member validates; the run goes on to Evaluate
\* only in that case.
C19_ValidateFailsFast ==
    LET failing == {i \in Members : AsserterValidate(rras[i]) # Nil}
    IN  /\ failing = {} => AssertersValidate(rras) = Nil
        /\ failing # {} =>
            \E i \in failing :
                /\ \A j \in failing : i <= j
                /\ AssertersValidate(rras) = AsserterValidate(rras[i])
        /\ phase # "start" => (phase = "failed" <=> failing # {})

\* Validate has failed on a collection with two members that fail with
\* different errors
C19_Witness ==
    /\ phase = "failed"
    /\ \E i, j \in Members :
        /\ i < j
        /\ AsserterValidate(rras[i]) # Nil /\ AsserterValidate(rras[j]) # Nil
        /\ AsserterValidate(rras[i]) # AsserterValidate(rras[j])
        /\ AssertersValidate(rras) = AsserterValidate(rras[i])

PristineKey(k) == k.runtime = KeyRuntime

\* the asserter is as it was constructed: nothing was evaluated or filtered
Pristine(a) ==
    CASE a.kind = "Key" -> PristineKey(a)
      [] a.kind = "KeyPair" ->
            /\ \A n \in DOMAIN a.Keys : PristineKey(a.Keys[n])
            /\ a.runtime = KeyPair(a.Keys, a.additionalEvidence).runtime
      [] a.kind = "File" -> a.runtime = FileRuntime
      [] a.kind = "KeyStrings" ->
            /\ PristineKey(a.Key)
            /\ a.runtime = KeyStrings(a.Key, a.expectedData,
                                      a.additionalEvidence).runtime
      [] OTHER -> PristineKey(a.Key) /\ a.runtime.data = ZeroData(a.kind)

NoPathIgnored ==
    \A j \in Members : \A np \in MatchedPathsOf(rras[j]) :
        ~PathIgnored(rras[j], np)

\* the order of a run up to the end of Evaluate: nothing is evaluated or
\* filtered before Validate has succeeded, members are evaluated one after
\* the other, and nothing is filtered before the patterns are applied
RunOrder ==
    /\ phase \in {"start", "failed"} => \A j \in Members : Pristine(rras[j])
    /\ phase \notin {"start", "failed"} => AssertersValidate(rras) = Nil
    /\ phase \in {"evaluating", "panicking"} =>
            \A j \in Members : j > idx => Pristine(rras[j])
    /\ phase \notin {"filtered", "reported"} => NoPathIgnored

\* C20: in a run of check_reboot, if the collection's Validate fails no
\* asserter is evaluated or filtered; otherwise Evaluate is called once on
\* every asserter, Filter is called at most once and only after all Evaluate
\* calls, and the aggregate queries are made only after that.
C20_RunOrdered ==
    /\ RunOrder
    /\ phase \notin {"start", "failed", "evaluating", "panicking"} =>
            \A j \in Members : Invoked(j)
    /\ phase \in {"filtered", "reported"} => idx = Len(rras) + 1

\* the part of C20 that holds: the order of Validate, Evaluate, Filter and
\* the queries in every run in which no Evaluate call panics
C20_RunOrderedUnlessPanic ==
    /\ RunOrder
    /\ phase \in {"evaluated", "filtered", "reported"} =>
            \A j \in Members : Invoked(j)
    /\ phase \in {"filtered", "reported"} => idx = Len(rras) + 1

\* C21: KeyPair.Evaluate compares the paired data only when value data was
\* retrieved for both members: evalKeyPairData is reached only with two data
\* elements saved, and no run ends in an out-of-range access.
C21_CompareOnlyWithBothData ==
    /\ (phase = "evaluating" /\ step = "compare") =>
            Len(Cur.runtime.data) = 2
    /\ phase \notin {"panicking", "panicked"}

\* the number of state predicates that are true of an asserter
NumStates(a) ==
    (IF IsOKState(a) THEN 1 ELSE 0) + (IF IsWarningState(a) THEN 1 ELSE 0)
        + (IF IsCriticalState(a) THEN 1 ELSE 0)

\* C22: after Evaluate and any sequence of Filter calls, exactly one of
\* IsOKState, IsWarningState and IsCriticalState is true of every asserter of
\* every kind.
C22_ExactlyOneState ==
    Evaluated => \A i \in Members : NumStates(rras[i]) = 1

\* C23: for a KeyPair after Evaluate and Filter, if it has a recorded matched
\* path and every matched path is marked ignored, Ignored is true and
\* RebootRequired is false, also when only one member recorded matched paths.
C23_KeyPairIgnoredWhenAllPathsIgnored ==
    Evaluated =>
        \A i \in Members :
            (rras[i].kind = "KeyPair" /\ AllPathsIgnored(rras[i])) =>
                KeyPairIgnored(rras[i]) /\ ~KeyPairRebootRequired(rras[i])

\* the steps that read through the key's handle
ReadingSteps == {"value", "subkeys", "typed", "gather"}

\* C24: evalValue, evalSubKeys, the typed data fetch and gatherKeyPairData
\* run only while the handle of the key they read is open, and so none of
\* them ever finds the key not open.
C24_ReadsOnlyThroughOpenHandle ==
    /\ (phase = "evaluating" /\ step \in ReadingSteps) =>
            CurKey(Cur, member).runtime.handle
    /\ \A j \in Members : \A n \in DOMAIN KeysOf(rras[j]) :
            KeyErr(KeysOf(rras[j])[n]) # ErrKeyNotOpen

\* the second member of a KeyPair is about to be read while both members'
\* handles are open
C24_Witness ==
    /\ phase = "evaluating" /\ step = "gather" /\ member = 2
    /\ \A n \in DOMAIN Cur.Keys : Cur.Keys[n].runtime.handle

\* evalValue has just returned without error for the Key being evaluated
\* and found its named value absent
ValueFoundAbsent(j) ==
    /\ phase = "evaluating" /\ j = idx /\ step = "subkeys"
    /\ rras[j].value # "" /\ rras[j].runtime.valueType = ""

\* what the named-value check of a Key records, in every state
ValueCheckRecords(j) ==
    LET k == rras[j]
    IN  /\ ValueFoundAbsent(j) =>
                /\ ~k.requirements.ValueRequired
                /\ ~KeyHasEvidence(k) /\ KeyErr(k) = Nil
        /\ KeyErr(k) = ErrMissingValue =>
                /\ k.value # "" /\ k.requirements.ValueRequired
                /\ k.runtime.valueType = "" /\ ~KeyHasEvidence(k)
                /\ j = idx => step = "close"
        /\ k.runtime.valueType # "" =>
                /\ k.value # ""
                /\ k.evidenceExpected.ValueExists =>
                        /\ k.runtime.evidenceFound.ValueExists
                        /\ k.path \in DOMAIN k.runtime.pathsMatched
        /\ k.runtime.evidenceFound.ValueExists =>
                k.runtime.valueType # "" /\ k.evidenceExpected.ValueExists

\* C25 as stated: in Key.Evaluate with a value name configured, an absent
\* value that is not required stops the evaluation of the asserter with no
\* evidence and no error recorded; an absent required value records
\* ErrMissingValue; a present value records ValueExists evidence and a
\* matched path when ValueExists is expected.
C25_ValueCheck ==
    \A j \in Members :
        rras[j].kind = "Key" =>
            /\ ValueCheckRecords(j)
            /\ ~(ValueFoundAbsent(j) /\ rras[j].evidenceExpected.SubKeysExist)
            /\ (rras[j].value # "" /\ rras[j].runtime.valueType = "") =>
                    ~rras[j].runtime.evidenceFound.SubKeysExist

\* C25 amended: an absent value that is not required makes the value check
\* record neither evidence nor error, and the evaluation goes on with the
\* subkey enumeration; the other two cases as stated.
C25_ValueCheckThenSubKeys ==
    \A j \in Members :
        rras[j].kind = "Key" =>
            /\ ValueCheckRecords(j)
            /\ (/\ rras[j].value # "" /\ rras[j].runtime.valueType = ""
                /\ rras[j].runtime.evidenceFound.SubKeysExist) =>
                    /\ ~rras[j].requirements.ValueRequired
                    /\ rras[j].evidenceExpected.SubKeysExist

\* a Key whose optional value was absent and whose subkeys were then found
C25_Witness ==
    /\ Evaluated
    /\ \E j \in Members :
        /\ rras[j].kind = "Key"
        /\ rras[j].value # "" /\ rras[j].runtime.valueType = ""
        /\ ~rras[j].requirements.ValueRequired
        /\ rras[j].runtime.evidenceFound.SubKeysExist
        /\ KeyErr(rras[j]) = Nil

\* C26: KeyInt, KeyBinary, KeyString and KeyStrings Evaluate perform the typed
\* fetch and comparison only when the embedded Key's evaluation finished
\* with no error and no evidence.
C26_TypedFetchOnlyWithoutEvidence ==
    (phase = "evaluating" /\ step = "typed") =>
        /\ Cur.kind \in {"KeyInt", "KeyBinary", "KeyString", "KeyStrings"}
        /\ KeyErr(Cur.Key) = Nil
        /\ ~KeyHasEvidence(Cur.Key)

\* the part of C26 about errors alone
C26_TypedFetchOnlyWithoutError ==
    (phase = "evaluating" /\ step = "typed") =>
        /\ Cur.kind \in {"KeyInt", "KeyBinary", "KeyString", "KeyStrings"}
        /\ KeyErr(Cur.Key) = Nil

\* the expected evidence of asserter a needs a named value and none is given
NeedsValueName(a) ==
    CASE a.kind = "Key" -> a.value = "" /\ a.evidenceExpected.ValueExists
      [] a.kind \in {"KeyInt", "KeyBinary", "KeyString", "KeyStrings"} ->
            /\ a.Key.value = ""
            /\ \/ a.Key.evidenceExpected.ValueExists
               \/ a.Key.evidenceExpected.DataOtherThanX
      [] OTHER -> FALSE

\* C27: Key.Validate fails with ErrMissingValue whenever the expected
\* evidence needs a named value (ValueExists, or DataOtherThanX on a typed
\* variant) and no value name is supplied; an unrecognized root is reported
\* first.
C27_ValueNameRequired ==
    \A j \in Members :
        NeedsValueName(rras[j]) =>
            /\ AsserterValidate(rras[j]) # Nil
            /\ AsserterValidate(rras[j]) # ErrInvalidRootKey =>
                    AsserterValidate(rras[j]) = ErrMissingValue
            /\ phase \in {"start", "failed"}

\* the part of C27 about ValueExists alone
C27_ValueNameRequiredForValueExists ==
    \A j \in Members : \A n \in DOMAIN KeysOf(rras[j]) :
        LET k == KeysOf(rras[j])[n]
        IN  (k.value = "" /\ k.evidenceExpected.ValueExists) =>
                /\ KeyValidate(k) \in {ErrInvalidRootKey, ErrMissingValue}
                /\ phase \in {"start", "failed"}

\* the search terms of ks of which the retrieved list holds an item that
\* Match(item, term) accepts, by position in expectedData
TermsMatched(ks, Match(_, _)) ==
    {i \in DOMAIN ks.expectedData :
        \E n \in DOMAIN ks.runtime.data :
            Match(ks.runtime.data[n], ks.expectedData[i])}

FirstOf(S) == CHOOSE i \in S : \A n \in S : i <= n

ContainsFold(item, term) == Contains(ToLower(item), ToLower(term))

\* the reasons of ks that report ValueFound evidence
ValueFoundReasons(ks) ==
    SelectSeq(KeyStringsRebootReasons(ks),
              LAMBDA r : r.evidence = "ValueFound")

\* C28 as stated: KeyStrings in ValueFound mode records evidence when a
\* candidate occurs as a case-insensitive substring of an item of the
\* retrieved list; scanning stops at the first matching candidate and
\* exactly one reason, naming that candidate, is produced.
C28_ValueFoundBySubstring ==
    \A j \in Members :
        (/\ rras[j].kind = "KeyStrings" /\ Returned(j)
         /\ rras[j].additionalEvidence.ValueFound
         /\ rras[j].runtime.data # <<>>) =>
            LET ks == rras[j]
                hits == TermsMatched(ks, ContainsFold)
            IN  /\ ks.runtime.evidenceFound.ValueFound <=> hits # {}
                /\ hits # {} =>
                    KeyStringsRebootReasons(ks) =
                        <<Reason("ValueFound", ks.expectedData[FirstOf(hits)])>>

\* C28 amended: evidence is recorded when a candidate equals, ignoring case,
\* an item of the retrieved list (an item that merely contains the candidate
\* is no match); scanning stops at the first matching candidate, the key's
\* path is recorded, and exactly one ValueFound reason, naming that
\* candidate, is produced.
C28_ValueFoundByMembership ==
    \A j \in Members :
        (/\ rras[j].kind = "KeyStrings" /\ Returned(j)
         /\ rras[j].additionalEvidence.ValueFound) =>
            LET ks == rras[j]
                hits == TermsMatched(ks, EqualFold)
            IN  /\ ks.runtime.evidenceFound.ValueFound <=> hits # {}
                /\ ~ks.runtime.evidenceFound.AllValuesFound
                /\ hits # {} =>
                    /\ ks.runtime.searchTermMatched =
                            ks.expectedData[FirstOf(hits)]
                    /\ ks.Key.path \in DOMAIN ks.Key.runtime.pathsMatched
                    /\ ValueFoundReasons(ks) =
                        <<Reason("ValueFound", ks.expectedData[FirstOf(hits)])>>
                /\ hits = {} => ValueFoundReasons(ks) = <<>>

\* both candidates are in the retrieved list, the first in another case,
\* and the first one is the one recorded
C28_Witness ==
    /\ Evaluated
    /\ \E j \in Members :
        /\ rras[j].kind = "KeyStrings"
        /\ rras[j].additionalEvidence.ValueFound
        /\ rras[j].runtime.data = <<<<"A">>, strB>>
        /\ rras[j].runtime.evidenceFound.ValueFound
        /\ rras[j].runtime.searchTermMatched = strA

LastOf(S) == CHOOSE i \in S : \A n \in S : n <= i

\* C29: KeyStrings in AllValuesFound mode scans all candidates and records
\* AllValuesFound evidence and a matched path iff every configured candidate
\* is found in the retrieved list; with a candidate missing no such evidence
\* is recorded.
C29_AllValuesFoundIffAllFound ==
    \A j \in Members :
        (/\ rras[j].kind = "KeyStrings" /\ Returned(j)
         /\ rras[j].additionalEvidence.AllValuesFound
         /\ ~rras[j].additionalEvidence.ValueFound) =>
            LET ks == rras[j]
                hits == TermsMatched(ks, EqualFold)
            IN  /\ ks.runtime.evidenceFound.AllValuesFound <=>
                        hits = DOMAIN ks.expectedData
                /\ ks.runtime.evidenceFound.AllValuesFound =>
                        ks.Key.path \in DOMAIN ks.Key.runtime.pathsMatched
                /\ ~ks.runtime.evidenceFound.ValueFound
                /\ hits # {} =>
                        ks.runtime.searchTermMatched =
                            ks.expectedData[LastOf(hits)]
                /\ (hits = {} /\ ~KeyHasEvidence(ks.Key)) =>
                        ks.Key.runtime.pathsMatched = <<>>

\* both candidates found: evidence recorded
C29_Witness ==
    /\ Evaluated
    /\ \E j \in Members :
        /\ rras[j].kind = "KeyStrings"
        /\ rras[j].additionalEvidence.AllValuesFound
        /\ rras[j].expectedData = <<strA, strB>>
        /\ rras[j].runtime.data = <<<<"A">>, strB>>
        /\ rras[j].runtime.evidenceFound.AllValuesFound

\* one candidate of two found: no evidence recorded
C29_WitnessMissing ==
    /\ Evaluated
    /\ \E j \in Members :
        /\ rras[j].kind = "KeyStrings"
        /\ rras[j].additionalEvidence.AllValuesFound
        /\ rras[j].expectedData = <<strA, strB>>
        /\ rras[j].runtime.data = <<strA>>
        /\ ~KeyStringsHasEvidence(rras[j])

\* the typed fetch of a KeyInt, KeyBinary or KeyString is the step being taken
TypedFetchStep ==
    /\ phase = "evaluating" /\ step = "typed"
    /\ Cur.kind \in {"KeyInt", "KeyBinary", "KeyString"}

\* the outcomes of the typed fetch of asserter a that leaves it as b
AbsentRequired(a, b) ==
    /\ a.Key.requirements.ValueRequired
    /\ b = [a EXCEPT !.Key.runtime.err = ErrMissingValue]

AbsentOptional(a, b) == ~a.Key.requirements.ValueRequired /\ b = a

FetchFailed(a, b) == b = [a EXCEPT !.Key.runtime.err = OSError]

Present(a, b) ==
    \E d \in DataValues(a.kind) :
        LET differs == d # a.expectedData
            found == b.Key.runtime.evidenceFound.DataOtherThanX
        IN  /\ b.runtime.data = IF a.kind = "KeyBinary"
                                THEN a.runtime.data \o d ELSE d
            /\ KeyErr(b.Key) = KeyErr(a.Key)
            /\ found <=> (differs /\ a.Key.evidenceExpected.DataOtherThanX)
            /\ found => a.Key.path \in DOMAIN b.Key.runtime.pathsMatched
            /\ ~found => b.Key.runtime = a.Key.runtime

\* C30: when the typed fetch of a KeyInt, KeyBinary or KeyString runs, an
\* absent required value records ErrMissingValue, an absent optional value
\* records neither evidence nor error, and a present value records
\* DataOtherThanX evidence and a matched path iff its data differs from
\* expectedData and DataOtherThanX is expected.
C30_TypedFetchOutcomes ==
    [][TypedFetchStep =>
            \/ AbsentRequired(rras[idx], rras'[idx])
            \/ AbsentOptional(rras[idx], rras'[idx])
            \/ FetchFailed(rras[idx], rras'[idx])
            \/ Present(rras[idx], rras'[idx])]_vars

\* C30, the states it leaves: DataOtherThanX evidence only with differing
\* data, the expectation and the path; ErrMissingValue only when the value
\* is required
C30_TypedEvidenceJustified ==
    \A j \in Members :
        rras[j].kind \in {"KeyInt", "KeyBinary", "KeyString"} =>
            LET a == rras[j]
            IN  /\ a.Key.runtime.evidenceFound.DataOtherThanX =>
                    /\ a.runtime.data # a.expectedData
                    /\ a.runtime.data # ZeroData(a.kind) \/ a.kind = "KeyInt"
                    /\ a.Key.evidenceExpected.DataOtherThanX
                    /\ a.Key.path \in DOMAIN a.Key.runtime.pathsMatched
                /\ KeyErr(a.Key) = ErrMissingValue =>
                    a.Key.requirements.ValueRequired

\* a fetched value whose data differs from the expected data, reported
C30_Witness ==
    /\ Evaluated
    /\ \E j \in Members :
        /\ rras[j].kind \in {"KeyInt", "KeyBinary", "KeyString"}
        /\ rras[j].runtime.data # rras[j].expectedData
        /\ rras[j].Key.runtime.evidenceFound.DataOtherThanX
        /\ rras[j].Key.path \in DOMAIN rras[j].Key.runtime.pathsMatched

\* the key of a registry asserter is being opened
OpenStep == phase = "evaluating" /\ step = "begin" /\ Cur.kind # "File"

\* the key being opened, before and after the step
OpenedKey == CurKey(rras[idx], member)

OpenedKeyAfter == CurKey(rras'[idx], member)

\* nothing of the asserter is read or evaluated after the step: a Key returns
\* from Evaluate, the other types go to their deferred close calls
NoFurtherStep ==
    IF Cur.kind = "Key" THEN idx' = idx + 1 ELSE idx' = idx /\ step' = "close"

\* outcomes of the open step
KeyMissing ==
    /\ OpenedKeyAfter =
            [OpenedKey EXCEPT !.runtime.err =
                IF OpenedKey.requirements.KeyRequired
                THEN ErrMissingRequiredItem ELSE ErrMissingOptionalItem]
    /\ ~KeyHasEvidence(OpenedKeyAfter)
    /\ OpenedKeyAfter.runtime.pathsMatched = EmptyIndex
    /\ NoFurtherStep

OpenFailed ==
    /\ OpenedKeyAfter = [OpenedKey EXCEPT !.runtime.err = OSError]
    /\ NoFurtherStep

KeyOpened ==
    /\ OpenedKeyAfter.runtime.handle
    /\ KeyErr(OpenedKeyAfter) = Nil
    /\ OpenedKeyAfter.runtime.evidenceFound.KeyExists <=>
            OpenedKey.evidenceExpected.KeyExists
    /\ OpenedKey.evidenceExpected.KeyExists =>
            DOMAIN OpenedKeyAfter.runtime.pathsMatched = {OpenedKey.path}
    /\ ~OpenedKey.evidenceExpected.KeyExists =>
            OpenedKeyAfter = [OpenedKey EXCEPT !.runtime.handle = TRUE]

\* C31: a key that does not exist makes Key.Evaluate record
\* ErrMissingRequiredItem if KeyRequired is set and ErrMissingOptionalItem
\* otherwise, with no evidence, no matched path and no further step; a key
\* that exists records KeyExists evidence and the key path as matched path
\* when KeyExists is expected.
C31_OpenOutcomes ==
    [][OpenStep => (KeyMissing \/ OpenFailed \/ KeyOpened)]_vars

\* C31, the states it leaves: a missing-item error is the one the
\* requirement selects and comes with no evidence, no path and no handle
C31_MissingItemRecorded ==
    \A j \in Members : \A n \in DOMAIN KeysOf(rras[j]) :
        LET k == KeysOf(rras[j])[n]
        IN  /\ KeyErr(k) = ErrMissingRequiredItem => k.requirements.KeyRequired
            /\ KeyErr(k) = ErrMissingOptionalItem => ~k.requirements.KeyRequired
            /\ KeyErr(k) \in {ErrMissingRequiredItem, ErrMissingOptionalItem} =>
                    /\ ~KeyHasEvidence(k)
                    /\ k.runtime.pathsMatched = EmptyIndex
                    /\ ~k.runtime.handle /\ k.runtime.valueType = ""

\* an optional Key that does not exist, after Evaluate
C31_Witness ==
    /\ Evaluated
    /\ \E j \in Members :
        /\ rras[j].kind = "Key"
        /\ ~rras[j].requirements.KeyRequired
        /\ rras[j].evidenceExpected.KeyExists
        /\ KeyErr(rras[j]) = ErrMissingOptionalItem
        /\ ~KeyHasEvidence(rras[j])

\* a Key that exists and whose existence is the evidence, after Evaluate
C31_WitnessExists ==
    /\ Evaluated
    /\ \E j \in Members :
        /\ rras[j].kind = "Key"
        /\ rras[j].runtime.evidenceFound.KeyExists
        /\ rras[j].path \in DOMAIN rras[j].runtime.pathsMatched

\* the positions, in collection order, of the members whose error is to be
\* reported when ignored members are included or not
ErrorPositions(includeIgnored) ==
    SelectSeq([i \in Members |-> i],
              LAMBDA i : /\ Err(rras[i]) # Nil
                         /\ Err(rras[i]) # ErrMissingOptionalItem
                         /\ Ignored(rras[i]) => includeIgnored)

\* C32: for either value of includeIgnored, Errs holds, in collection order,
\* exactly the errors of the members whose Err() is non-nil, is not
\* ErrMissingOptionalItem, and that are not ignored unless ignored members
\* are included; its length is NumErrors, and HasErrors holds iff NumErrors
\* is positive.
C32_ErrsListsCountedErrors ==
    Evaluated =>
        \A b \in BOOLEAN :
            LET at == ErrorPositions(b)
            IN  /\ Errs(rras, b) = [n \in DOMAIN at |-> Err(rras[at[n]])]
                /\ Len(Errs(rras, b)) = NumErrors(rras, b)
                /\ HasErrors(rras, b) <=> NumErrors(rras, b) > 0

\* a collection of two members with errors, one of them ignored by a Filter
\* call and the other one not
C32_Witness ==
    /\ Evaluated /\ Len(rras) = 2
    /\ Len(Errs(rras, TRUE)) = 2
    /\ Len(Errs(rras, FALSE)) = 1
    /\ \E i \in Members : Ignored(rras[i]) /\ Err(rras[i]) # Nil

\* File.Evaluate is the step being taken
FileStep == phase = "evaluating" /\ step = "begin" /\ Cur.kind = "File"

\* the outcomes of File.Evaluate on file f that leave it as g
FileNotFound(f, g) == g = f

FileFound(f, g) ==
    /\ g.runtime.evidenceFound.FileExists
    /\ DOMAIN g.runtime.pathsMatched = {Clean(FileString(f))}
    /\ \A p \in DOMAIN g.runtime.pathsMatched : ~g.runtime.pathsMatched[p].ignored
    /\ FileErr(g) = Nil

FileStatFailed(f, g) ==
    /\ g = [f EXCEPT !.runtime.err = OSError]
    /\ ~FileHasEvidence(g)

\* the state of an evaluated File follows from what Evaluate recorded
FileStateFollows(f) ==
    /\ (FileErr(f) = Nil /\ ~FileHasEvidence(f)) =>
            /\ f.runtime.pathsMatched = EmptyIndex
            /\ IsOKState(f) /\ ~IsWarningState(f) /\ ~IsCriticalState(f)
    /\ FileHasEvidence(f) =>
            /\ FileErr(f) = Nil
            /\ Cardinality(DOMAIN f.runtime.pathsMatched) = 1
            /\ IsWarningState(f) <=> ~Ignored(f)
            /\ IsOKState(f) <=> Ignored(f)
            /\ ~IsCriticalState(f)
    /\ FileErr(f) # Nil =>
            /\ ~FileHasEvidence(f)
            /\ f.runtime.pathsMatched = EmptyIndex
            /\ IsCriticalState(f) /\ ~IsWarningState(f) /\ ~IsOKState(f)

\* C33: File.Evaluate on the resolved, cleaned path: not found records
\* neither evidence nor error (OK); found records FileExists evidence and
\* one matched path (WARNING unless ignored); any other stat error is
\* recorded as the asserter's error with no evidence (CRITICAL).
C33_FileEvaluateOutcomes ==
    /\ [](\A j \in Members : rras[j].kind = "File" => FileStateFollows(rras[j]))
    /\ [][FileStep =>
            \/ FileNotFound(rras[idx], rras'[idx])
            \/ FileFound(rras[idx], rras'[idx])
            \/ FileStatFailed(rras[idx], rras'[idx])]_vars

\* a File that was found and then ignored by a Filter call
C33_Witness ==
    /\ Evaluated
    /\ \E j \in Members :
        /\ rras[j].kind = "File"
        /\ FileHasEvidence(rras[j]) /\ Ignored(rras[j])
        /\ IsOKState(rras[j])

\* a File whose stat failed
C33_WitnessCritical ==
    /\ Evaluated
    /\ \E j \in Members :
        /\ rras[j].kind = "File"
        /\ FileErr(rras[j]) # Nil /\ IsCriticalState(rras[j])

\* Evaluate recorded an error and no matched path for asserter a
ErrorWithoutPath(a) == Err(a) # Nil /\ MatchedPathsOf(a) = {}

\* C34: an asserter whose Evaluate recorded an error and no matched path is
\* not ignored, before and after a Filter call with any pattern list, and a
\* Filter call does not take it out of the critical state.
C34_ErrorWithoutPathNeverIgnored ==
    Evaluated =>
        \A j \in Members :
            ErrorWithoutPath(rras[j]) =>
                /\ ~Ignored(rras[j])
                /\ Err(rras[j]) # ErrMissingOptionalItem =>
                        IsCriticalState(rras[j])
                /\ \A ignorePatterns \in PatternLists :
                    LET filtered == AsserterFilter(rras[j], ignorePatterns)
                    IN  /\ ~Ignored(filtered)
                        /\ ErrorWithoutPath(filtered)
                        /\ IsCriticalState(filtered) = IsCriticalState(rras[j])

\* a key that could not be read, whose own path a pattern of the lists
\* matches
C34_Witness ==
    /\ Evaluated
    /\ \E j \in Members :
        /\ rras[j].kind = "Key"
        /\ ErrorWithoutPath(rras[j]) /\ IsCriticalState(rras[j])
        /\ \E ignorePatterns \in PatternLists :
            \E n \in DOMAIN ignorePatterns :
                MatchesPattern(rras[j].path, ignorePatterns[n])

\* C35: the ignored flag of a matched path is monotone: a Filter call, with
\* any pattern list, leaves every flag that was set as it is, so an asserter
\* that was ignored before the call is ignored after it.
C35_IgnoredFlagMonotone ==
    [][FilterStep =>
        \A j \in Members :
            /\ MatchedPathsOf(rras'[j]) = MatchedPathsOf(rras[j])
            /\ \A np \in MatchedPathsOf(rras[j]) :
                    PathIgnored(rras[j], np) => PathIgnored(rras'[j], np)
            /\ Ignored(rras[j]) => Ignored(rras'[j])]_vars

\* a path that an earlier call marked, and a pattern list that does not
\* match it
C35_Witness ==
    /\ Evaluated
    /\ \E j \in Members : \E np \in MatchedPathsOf(rras[j]) :
        /\ PathIgnored(rras[j], np)
        /\ Ignored(rras[j])
        /\ \E ignorePatterns \in PatternLists :
            /\ ignorePatterns # <<>>
            /\ \A n \in DOMAIN ignorePatterns :
                    ~MatchesPattern(np[2], ignorePatterns[n])

\* main has stored its results
Reported == phase = "reported"

\* the one-line summary main stored
Summary == plugin[1].ServiceOutput

\* C36: the one-line summary agrees with the collection state: with "Reboot
\* needed" the label is WARNING, with "Reboot evaluation failed" it is
\* CRITICAL, and with "Reboot not needed" it is OK.
C36_SummaryAgreesWithLabel ==
    Reported =>
        /\ Summary.text = "Reboot needed" => Summary.label = StateWARNING
        /\ Summary.text = "Reboot evaluation failed" =>
                Summary.label = StateCRITICAL
        /\ Summary.text = "Reboot not needed" => Summary.label = StateOK

\* C36 amended: with "Reboot needed" the label is WARNING, or CRITICAL when
\* a member is in a critical state; with "Reboot evaluation failed" it is
\* CRITICAL and with "Reboot not needed" it is OK; the exit code is the
\* label's.
C36_SummaryLabels ==
    Reported =>
        /\ Summary.text = "Reboot needed" =>
                /\ Summary.label \in {StateWARNING, StateCRITICAL}
                /\ Summary.label = StateCRITICAL <=> HasCriticalState(rras)
        /\ Summary.text = "Reboot evaluation failed" =>
                Summary.label = StateCRITICAL
        /\ Summary.text = "Reboot not needed" => Summary.label = StateOK
        /\ Summary.text # "BUG"
        /\ plugin[1].ExitStatusCode = StateExitCode(Summary.label)

\* a reboot is needed and another member failed: "CRITICAL: Reboot needed"
C36_Witness ==
    /\ Reported
    /\ Summary.text = "Reboot needed" /\ Summary.label = StateCRITICAL
    /\ \E i \in Members : RebootRequired(rras[i])
    /\ \E i \in Members : IsCriticalState(rras[i])

\* main renders the summary and the report
ReportStep == phase = "filtered" /\ phase' = "reported"

\* the results main would have stored with the other flag values
OtherResults ==
    {mainResults(rras, showIgnored, verbose) :
        showIgnored \in BOOLEAN, verbose \in BOOLEAN}

\* C37: the verbose and show-ignored flags never influence severity: the
\* exit code stored for a filtered collection is ServiceState's whatever the
\* two flags are, as are the one-line summary and the errors, and rendering
\* the summary and the report changes no asserter.
C37_FlagsDoNotChangeSeverity ==
    [][ReportStep =>
        /\ rras' = rras
        /\ plugin'[1].ExitStatusCode = StateExitCode(ServiceState(rras))
        /\ \A other \in OtherResults :
            /\ other.ExitStatusCode = plugin'[1].ExitStatusCode
            /\ other.ServiceOutput = plugin'[1].ServiceOutput
            /\ other.Errors = plugin'[1].Errors]_vars

\* a collection whose report depends on both flags: an ignored member and a
\* member that is not ignored, both with evidence
C37_Witness ==
    /\ Reported
    /\ \E i \in Members : Ignored(rras[i])
    /\ \E i \in Members : RebootRequired(rras[i])
    /\ \A r1 \in OtherResults : \A r2 \in OtherResults :
            r1.ExitStatusCode = r2.ExitStatusCode
    /\ Cardinality({r.LongServiceOutput : r \in OtherResults}) = 4

\* the step of main that applies the ignore patterns
ApplyStep == phase = "evaluated" /\ phase' = "filtered"

NoPathIgnoredIn(as) ==
    \A i \in 1..Len(as) :
        \A np \in MatchedPathsOf(as[i]) : ~PathIgnored(as[i], np)

DefaultIgnorePatterns ==
    DefaultRebootRequiredIgnoredPaths \o FileDefaultRebootRequiredIgnoredPaths

\* C38: with the disable-default-ignored option set applyIgnorePatterns
\* leaves the evaluated collection as it is: no member is ignored,
\* NumIgnored is 0 and every member with evidence is counted by NumMatched;
\* with the option not set the collection is the result of one Filter call
\* with the registry default patterns followed by the file default patterns.
\* The step of main yields one of the two results.
C38_DisableDefaultIgnored ==
    /\ [](phase = "evaluated" =>
            LET off == applyIgnorePatterns(rras, TRUE)
                on == applyIgnorePatterns(rras, FALSE)
            IN  /\ off = rras
                /\ NoPathIgnoredIn(off)
                /\ NumIgnored(off) = 0
                /\ \A i \in 1..Len(off) :
                        HasEvidence(off[i]) => RebootRequired(off[i])
                /\ NumMatched(off) =
                        Cardinality({i \in 1..Len(off) : HasEvidence(off[i])})
                /\ on = AssertersFilter(rras, DefaultIgnorePatterns))
    /\ [][ApplyStep =>
            \/ rras' = rras /\ NumIgnored(rras') = 0
            \/ rras' = AssertersFilter(rras, DefaultIgnorePatterns)]_vars

\* the option is set and a member whose matched paths the default patterns
\* cover is still counted as matched
C38_Witness ==
    /\ phase = "filtered"
    /\ NumIgnored(rras) = 0
    /\ \E i \in 1..Len(rras) :
            /\ RebootRequired(rras[i])
            /\ Ignored(AsserterFilter(rras[i], DefaultIgnorePatterns))

\* the option is not set and the default patterns cover a member
C38_WitnessFiltered ==
    /\ phase = "filtered"
    /\ \E i \in 1..Len(rras) : HasEvidence(rras[i]) /\ Ignored(rras[i])

====
